---- MODULE Spec2Model ----
(***************************************************************************)
(* Model of vintasend-medplum: MedplumNotificationBackend (the resource    *)
(* mapping layer, the filter compiler, the attachment deduplication        *)
(* engine) and MedplumAttachmentManager, over an in-memory model of the    *)
(* FHIR record store they talk to.                                         *)
(*                                                                         *)
(* Conventions of the model                                                *)
(*  - An optional value (undefined / null in the source) is a sequence of  *)
(*    length at most one: None is <<>>, Some(x) is <<x>>.                  *)
(*  - A string that the source joins with ',' and later splits on ','      *)
(*    is the sequence of its comma-free pieces: joining is \o on           *)
(*    sequences and split(',') is the sequence itself.                     *)
(*  - Resource ids are natural numbers handed out by one counter and       *)
(*    never reused (the store hands out UUIDs).                            *)
(*  - A locator `Media/<id>` or `Binary/<id>` is the record                *)
(*    [rtype |-> ..., id |-> ...].                                         *)
(***************************************************************************)
EXTENDS Integers, Sequences, FiniteSets, TLC

VARIABLES
  comms,      \* Communication resources of the store: id -> record
  medias,     \* Media resources of the store: id -> record
  binaries,   \* Binary resources of the store: id -> the bytes held
  nextId,     \* the next id the store hands out
  now,        \* the wall clock (new Date())
  last        \* what the last backend call was given and what it returned

vars == <<comms, medias, binaries, nextId, now, last>>

(***************************************************************************)
(* Bounds of the model.                                                    *)
(***************************************************************************)
MaxMapRecords == 1      \* live notifications, mapping-layer specification
MaxFilterRecords == 2   \* live notifications, filter specification
MaxNotifications == 2   \* live notifications, attachment specification
MaxAttachments == 2     \* attachment inputs of one persist call
MaxIds == 5             \* no call starts once the store handed out this many ids
MaxTime == 2            \* the clock stops here
MaxPageSize == 2        \* page sizes asked of the paged queries

(***************************************************************************)
(* Optional values and JavaScript truthiness.                              *)
(***************************************************************************)
None == <<>>
Some(x) == <<x>>
IsSome(o) == o # <<>>

\* `x || y` keeps x unless x is undefined, null or the empty string
Truthy(o) == o # <<>> /\ o[1] # ""
OrElse(o, d) == IF Truthy(o) THEN o[1] ELSE d
OrNull(o) == IF Truthy(o) THEN o ELSE None

\* the first element of a sequence that satisfies a test, as Array.find does
FirstOf(s, hits) ==
  IF hits = {} THEN None
  ELSE Some(s[CHOOSE i \in hits : \A j \in hits : i <= j])

Find(s, Test(_)) == FirstOf(s, {i \in 1..Len(s) : Test(s[i])})

SeqToSet(s) == {s[i] : i \in 1..Len(s)}

(***************************************************************************)
(* JSON.stringify / JSON.parse of a flat object.  An object is a sequence  *)
(* of <<key, value>> pairs; its text is the token sequence                 *)
(* "{" k1 v1 k2 v2 ... "}".                                                *)
(***************************************************************************)
RECURSIVE FlattenPairs(_)
FlattenPairs(obj) ==
  IF obj = <<>> THEN <<>>
  ELSE <<obj[1][1], obj[1][2]>> \o FlattenPairs(Tail(obj))

JSONstringify(obj) == <<"{">> \o FlattenPairs(obj) \o <<"}">>

RECURSIVE PairUp(_)
PairUp(tokens) ==
  IF Len(tokens) < 2 THEN <<>>
  ELSE << <<tokens[1], tokens[2]>> >> \o PairUp(Tail(Tail(tokens)))

JSONparse(text) == PairUp(SubSeq(text, 2, Len(text) - 1))

EmptyObject == <<>>
EmptyObjectText == <<"{", "}">>

(***************************************************************************)
(* Date.toISOString and new Date(iso).  A Date is a number of clock ticks  *)
(* (seconds since the epoch); its ISO text is a string.                    *)
(***************************************************************************)
IsoText ==
  << "1970-01-01T00:00:00.000Z", "1970-01-01T00:00:01.000Z",
     "1970-01-01T00:00:02.000Z", "1970-01-01T00:00:03.000Z",
     "1970-01-01T00:00:04.000Z", "1970-01-01T00:00:05.000Z" >>
toISOString(d) == IsoText[d + 1]
newDate(text) == (CHOOSE i \in 1..Len(IsoText) : IsoText[i] = text) - 1

(***************************************************************************)
(* Fixed strings of the source.                                            *)
(***************************************************************************)
SysBodyTemplate == "http://vintasend.com/fhir/body-template"
SysSubjectTemplate == "http://vintasend.com/fhir/subject-template"
SysAdapterUsed == "http://vintasend.com/fhir/adapter-used"
SysGitCommitSha == "http://vintasend.com/fhir/git-commit-sha"
SysChecksum == "http://vintasend.com/fhir/attachment-checksum"
SysBinaryId == "http://vintasend.com/fhir/binary-id"

UrlEmailOrPhone == "http://vintasend.com/fhir/StructureDefinition/emailOrPhone"
UrlFirstName == "http://vintasend.com/fhir/StructureDefinition/firstName"
UrlLastName == "http://vintasend.com/fhir/StructureDefinition/lastName"
UrlContextUsed == "http://vintasend.com/fhir/StructureDefinition/contextUsed"

TagNotification == "notification"
TagOneOff == "one-off"
TagManagerFile == "attachment-file"
TagBackendMetadata == "vintasend-backend-attachment-metadata"

(***************************************************************************)
(* Errors, and the record of the last backend call.  Every field keeps one *)
(* type whatever the call: what a call does not use keeps its NoCall value.*)
(***************************************************************************)
NoError == [type |-> "none", key |-> "", left |-> <<>>, right |-> <<>>, id |-> -1]

AttachmentNotFound(fileId) ==
  [NoError EXCEPT !.type = "Attachment file not found", !.id = fileId]
StillReferenced(fileId) ==
  [NoError EXCEPT !.type = "Cannot delete attachment file: still referenced by notifications",
                  !.id = fileId]
StoreRejected(id) == [NoError EXCEPT !.type = "store rejected the request", !.id = id]
AttachmentNotFoundFor(id) ==
  [NoError EXCEPT !.type = "Attachment not found for notification", !.id = id]
OrUnsupported == [NoError EXCEPT !.type = "OR filters are not supported"]
ConflictingValues(key, left, right) ==
  [NoError EXCEPT !.type = "Conflicting values for FHIR search parameter",
                  !.key = key, !.left = left, !.right = right]
NotOnlySimple ==
  [NoError EXCEPT !.type = "NOT filters are only supported for simple field filters"]
NotOnRange(field) ==
  [NoError EXCEPT !.type = "NOT filter on range is not supported", !.key = field]
NotWithoutField ==
  [NoError EXCEPT !.type = "NOT filter must contain at least one supported negatable field"]
LookupUnsupported(field, lookup) ==
  [NoError EXCEPT !.type = "lookup is not supported", !.key = field, !.left = <<lookup>>]
CaseInsensitiveUnsupported(field) ==
  [NoError EXCEPT !.type = "lookup with caseSensitive=false is not supported", !.key = field]

\* the read-then-write calls that may overlap, and where each one is: idle,
\* past its pending check, or holding the record it read and the record it
\* is about to write
RaceOps ==
  {"markAsSent", "markAsFailed", "persistNotificationUpdate", "storeAdapterAndContextUsed"}

Idle == [pc |-> "idle", check |-> FALSE, id |-> -1, existing |-> <<>>, updated |-> <<>>]

NoneInFlight == [op \in RaceOps |-> Idle]

NoCall ==
  [ op |-> "none", outcome |-> "none", error |-> NoError,
    input |-> <<>>,        \* the notification input of a persist call
    filter |-> <<>>,       \* the filter tree of a filterNotifications call
    page |-> 0, pageSize |-> 0,
    id |-> -1,             \* the id a call was given, or the id persist created
    result |-> <<>>,       \* the notification a call returned
    found |-> <<>>,        \* the notifications a query returned, in order
    attachments |-> {},    \* the stored attachments persist returned
    files |-> {},          \* the file records a call returned
    uploads |-> 0,         \* calls of the manager's uploadFile
    queries |-> 0,         \* batched checksum queries sent
    lookupOk |-> TRUE,     \* whether the store answered the call's search
    check |-> FALSE,       \* the precondition flag a terminal-state setter was given
    update |-> <<>>,       \* the partial update a persist*Update call was given
    user |-> "",           \* the user an unread query was asked about
    attachmentId |-> <<>>, \* the attachment id a call was given
    replaced |-> <<>>,     \* the record an overlapping call's write replaced
    inflight |-> NoneInFlight, \* the overlapping calls that have not returned
    tuples |-> <<>>,       \* the query tuples handed to the store
    searched |-> FALSE ]   \* whether the store was queried

(***************************************************************************)
(* The resource mapping layer: decode.                                     *)
(***************************************************************************)
ValueOf(hit) == IF hit = None THEN None ELSE hit[1].value
ValueStringOf(hit) == IF hit = None THEN None ELSE hit[1].valueString

IdentifierValue(c, system) ==
  ValueOf(Find(c.identifier, LAMBDA i : i.system = system))

ExtensionValue(c, url) ==
  ValueStringOf(Find(c.extension, LAMBDA e : e.url = url))

\* meta.tag[i].code, counted from 1
TagCode(c, i) == IF Len(c.tag) >= i THEN Some(c.tag[i]) ELSE None

\* payload[0]
FirstPayload(c) == IF Len(c.payload) >= 1 THEN Some(c.payload[1]) ELSE None

\* the three-way status collapse read back
StatusOfFhir(status) ==
  IF status = "completed" THEN "SENT"
  ELSE IF status = "stopped" THEN "FAILED"
  ELSE "PENDING_SEND"

\* a one-off record is one that carries all three one-off extensions
IsOneOffRecord(emailOrPhone, firstName, lastName) ==
  Truthy(emailOrPhone) /\ Truthy(firstName) /\ Truthy(lastName)

SubjectOfPayload(first) ==
  IF first = None THEN None ELSE OrNull(first[1].subject)

BodyOf(bodyFromId, first) ==
  IF Truthy(bodyFromId) THEN bodyFromId[1]
  ELSE IF first # None /\ Truthy(first[1].contentString)
       THEN first[1].contentString[1]
       ELSE ""

ContextUsedOf(text) ==
  IF text # None /\ text[1] # <<>> THEN Some(JSONparse(text[1])) ELSE None

LastUpdatedOf(c, clock) ==
  IF c.lastUpdated # None THEN newDate(c.lastUpdated[1]) ELSE clock

baseNotification(id, c, clock, subjFromId) ==
  [ id |-> id,
    notificationType |-> TagCode(c, 3),
    title |-> OrNull(c.topic),
    contextName |-> TagCode(c, 2),
    contextParameters |->
      JSONparse(IF c.note # None /\ c.note[1] # <<>> THEN c.note[1]
                ELSE EmptyObjectText),
    sendAfter |-> IF c.sent # None THEN Some(newDate(c.sent[1])) ELSE None,
    bodyTemplate |-> BodyOf(IdentifierValue(c, SysBodyTemplate), FirstPayload(c)),
    subjectTemplate |->
      IF Truthy(subjFromId) THEN subjFromId ELSE SubjectOfPayload(FirstPayload(c)),
    extraParams |-> EmptyObject,
    status |-> StatusOfFhir(c.status),
    contextUsed |-> ContextUsedOf(ExtensionValue(c, UrlContextUsed)),
    adapterUsed |-> OrNull(IdentifierValue(c, SysAdapterUsed)),
    gitCommitSha |-> OrNull(IdentifierValue(c, SysGitCommitSha)),
    sentAt |->
      IF c.status = "completed"
      THEN Some(IF c.sent # None THEN newDate(c.sent[1]) ELSE clock)
      ELSE None,
    readAt |-> None,
    createdAt |-> LastUpdatedOf(c, clock),
    updatedAt |-> LastUpdatedOf(c, clock) ]

\* a decode in which the recipient reference wins over the triple
WithReferenceFirst(base, c, emailOrPhone, firstName, lastName) ==
  IF c.recipient = None /\ IsOneOffRecord(emailOrPhone, firstName, lastName)
  THEN [ form |-> "one-off", userId |-> None, emailOrPhone |-> emailOrPhone,
         firstName |-> firstName, lastName |-> lastName, fields |-> base ]
  ELSE [ form |-> "regular", userId |-> c.recipient, emailOrPhone |-> None,
         firstName |-> None, lastName |-> None, fields |-> base ]

WithRecipient(base, c, emailOrPhone, firstName, lastName) ==
  IF IsOneOffRecord(emailOrPhone, firstName, lastName)
  THEN [ form |-> "one-off", userId |-> None, emailOrPhone |-> emailOrPhone,
         firstName |-> firstName, lastName |-> lastName, fields |-> base ]
  ELSE [ form |-> "regular", userId |-> c.recipient, emailOrPhone |-> None,
         firstName |-> None, lastName |-> None, fields |-> base ]

\* the decoded notification: the recipient form, and under `fields` the
\* fields both forms share
mapToDatabaseNotification(id, c, clock) ==
  WithRecipient(baseNotification(id, c, clock, IdentifierValue(c, SysSubjectTemplate)),
                c,
                ExtensionValue(c, UrlEmailOrPhone),
                ExtensionValue(c, UrlFirstName),
                ExtensionValue(c, UrlLastName))

(***************************************************************************)
(* The record store.  A store value st is the part of the state a call     *)
(* threads through its steps: [comms, medias, binaries, nextId].           *)
(* createResource hands out the next id; a deleted id is never reused.     *)
(***************************************************************************)
Store == [comms |-> comms, medias |-> medias, binaries |-> binaries, nextId |-> nextId]

Put(f, k, v) == [x \in (DOMAIN f) \cup {k} |-> IF x = k THEN v ELSE f[x]]
Drop(f, k) == [x \in (DOMAIN f) \ {k} |-> f[x]]

createBinary(st, bytes) ==
  [st EXCEPT !.binaries = Put(st.binaries, st.nextId, bytes),
             !.nextId = st.nextId + 1]

createMedia(st, media) ==
  [st EXCEPT !.medias = Put(st.medias, st.nextId, media),
             !.nextId = st.nextId + 1]

createCommunication(st, c, clock) ==
  [st EXCEPT !.comms = Put(st.comms, st.nextId,
                           [c EXCEPT !.lastUpdated = Some(toISOString(clock))]),
             !.nextId = st.nextId + 1]

(***************************************************************************)
(* MedplumAttachmentManager.                                               *)
(***************************************************************************)
\* SHA-256 of the bytes: one digest per content, no collisions
calculateChecksum(bytes) == "sha256:" \o bytes

\* `Binary/<id>` and `Media/<id>`
BinaryUrl(id) == [rtype |-> "Binary", id |-> id]
MediaUrl(id) == [rtype |-> "Media", id |-> id]

\* url.match(/Binary\/([^/]+)/) and url.match(/Media\/([^/]+)/)
MatchBinaryId(url) ==
  IF url # None /\ url[1].rtype = "Binary" THEN Some(url[1].id) ELSE None
MatchMediaId(url) ==
  IF url # None /\ url[1].rtype = "Media" THEN Some(url[1].id) ELSE None

\* the Media resource and the record uploadFile makes for a created Binary
ManagerMedia(binaryId, bytes, filename) ==
  [ tag |-> <<TagManagerFile>>,
    checksum |-> calculateChecksum(bytes),
    binaryIdent |-> Some(binaryId),
    url |-> Some(BinaryUrl(binaryId)),
    title |-> filename ]

ManagerRecord(mediaId, binaryId, bytes, filename) ==
  [ id |-> mediaId,
    filename |-> filename,
    checksum |-> calculateChecksum(bytes),
    storageIdentifiers |->
      [ id |-> Some(mediaId),
        url |-> Some(BinaryUrl(binaryId)),
        binaryId |-> Some(binaryId),
        medplumBinaryId |-> None,
        medplumMediaId |-> None ] ]

\* uploadFile: a Binary with the bytes, then a Media describing it; the
\* record returned carries the Media's id
Described(st1, binaryId, bytes, filename) ==
  [ st |-> createMedia(st1, ManagerMedia(binaryId, bytes, filename)),
    record |-> ManagerRecord(st1.nextId, binaryId, bytes, filename) ]

uploadFile(st, bytes, filename) ==
  Described(createBinary(st, bytes), st.nextId, bytes, filename)

\* deleteFile: the Binary the Media's content.url names (a failure to delete
\* it is caught and logged), then the Media itself; reading a missing Media
\* raises
DropBinary(st, binaryId, binaryDeleteOk) ==
  IF binaryDeleteOk /\ binaryId # None /\ binaryId[1] \in DOMAIN st.binaries
  THEN [st EXCEPT !.binaries = Drop(st.binaries, binaryId[1])]
  ELSE st

DropMedia(st, fileId) == [st EXCEPT !.medias = Drop(st.medias, fileId)]

deleteFile(st, fileId, binaryDeleteOk) ==
  IF fileId \notin DOMAIN st.medias
  THEN [ok |-> FALSE, st |-> st]
  ELSE [ok |-> TRUE,
        st |-> DropMedia(DropBinary(st, MatchBinaryId(st.medias[fileId].url),
                                    binaryDeleteOk),
                         fileId)]

deleteFileByIdentifiers(st, storageIdentifiers, binaryDeleteOk) ==
  IF storageIdentifiers.id # None
  THEN deleteFile(st, storageIdentifiers.id[1], binaryDeleteOk)
  ELSE [ok |-> FALSE, st |-> st]

(***************************************************************************)
(* The backend's attachment metadata records.                              *)
(***************************************************************************)
\* a second Media, tagged as backend metadata, for the record the manager
\* returned; its binary-id identifier is storageIdentifiers.medplumBinaryId
storeAttachmentFileRecord(st, record) ==
  createMedia(st, [ tag |-> <<TagBackendMetadata>>,
                    checksum |-> record.checksum,
                    binaryIdent |-> record.storageIdentifiers.medplumBinaryId,
                    url |-> record.storageIdentifiers.url,
                    title |-> record.filename ])

BinaryIdOf(media) ==
  IF media.binaryIdent # None THEN media.binaryIdent ELSE MatchBinaryId(media.url)

mediaToAttachmentFileRecord(id, media) ==
  [ id |-> id,
    filename |-> media.title,
    checksum |-> media.checksum,
    storageIdentifiers |->
      [ id |-> Some(id),
        url |-> media.url,
        binaryId |-> None,
        medplumBinaryId |-> BinaryIdOf(media),
        medplumMediaId |-> Some(id) ] ]

\* readResource('Media', fileId): any Media, whatever its tag
getAttachmentFileRecord(st, fileId) ==
  IF fileId \in DOMAIN st.medias
  THEN Some(mediaToAttachmentFileRecord(fileId, st.medias[fileId]))
  ELSE None

\* the Media the batched existence query returns for a set of checksums:
\* `identifier=<c1,c2,...>&_tag=vintasend-backend-attachment-metadata`
ChecksumMatches(st, checksums) ==
  {m \in DOMAIN st.medias :
     /\ TagBackendMetadata \in SeqToSet(st.medias[m].tag)
     /\ st.medias[m].checksum \in checksums}

\* a Map keyed by checksum that picks, for every checksum some of `hits`
\* carries, one of the hits that carry it
PicksOne(f, st, checksums, hits) ==
  \A c \in checksums :
    IF \E m \in hits : st.medias[m].checksum = c
    THEN f[c] # None /\ f[c][1] \in hits /\ st.medias[f[c][1]].checksum = c
    ELSE f[c] = None

\* findAttachmentFilesByChecksums builds a Map keyed by checksum from the
\* search results; when several records carry one checksum the one the store
\* lists last stays in the Map.  The store's order is not specified, so a
\* result is any map that picks one matching record per checksum.  A search
\* that rejects is caught and gives the empty Map.
FoundAmong(st, checksums, hits) ==
  {f \in [checksums -> {None} \cup {Some(m) : m \in hits}] :
     PicksOne(f, st, checksums, hits)}

findAttachmentFilesByChecksums(st, checksums, searchOk) ==
  IF ~searchOk THEN {[c \in checksums |-> None]}
  ELSE FoundAmong(st, checksums, ChecksumMatches(st, checksums))

(***************************************************************************)
(* The attachment deduplication engine.                                    *)
(* An attachment input is [kind, bytes, filename, fileId, description]:    *)
(* kind "file" is a new upload, kind "ref" names a stored file by id.      *)
(***************************************************************************)
Indexed(attachments) ==
  [i \in 1..Len(attachments) |-> [index |-> i, att |-> attachments[i]]]

fileReferences(attachments) ==
  SelectSeq(Indexed(attachments), LAMBDA x : x.att.kind = "ref")

newUploads(attachments) ==
  SelectSeq(Indexed(attachments), LAMBDA x : x.att.kind = "file")

UploadChecksums(attachments) ==
  {calculateChecksum(attachments[i].bytes) :
     i \in {j \in 1..Len(attachments) : attachments[j].kind = "file"}}

FileRecord(x, record) ==
  [index |-> x.index, record |-> record, description |-> x.att.description]

\* every reference resolved, in input order; the first that does not
\* resolve raises
ReferenceStep(r, record, rest) ==
  IF record = None
  THEN [ok |-> FALSE, error |-> AttachmentNotFound(r.att.fileId), records |-> <<>>]
  ELSE IF ~rest.ok THEN rest
  ELSE [rest EXCEPT !.records = <<FileRecord(r, record[1])>> \o rest.records]

RECURSIVE ReferenceLoop(_, _)
ReferenceLoop(st, refs) ==
  IF refs = <<>> THEN [ok |-> TRUE, error |-> NoError, records |-> <<>>]
  ELSE ReferenceStep(Head(refs),
                     getAttachmentFileRecord(st, Head(refs).att.fileId),
                     ReferenceLoop(st, Tail(refs)))

\* one new upload: a checksum the lookup found is reused, any other is
\* handed to the manager and its record stored
Stored(up) ==
  [st |-> storeAttachmentFileRecord(up.st, up.record), n |-> 1, record |-> up.record]

\* an upload step that takes no notice of the lookup
UploadAlways(st, u, existing) ==
  Stored(uploadFile(st, u.att.bytes, u.att.filename))

UploadStep(st, u, existing) ==
  IF existing # None
  THEN [ st |-> st, n |-> 0,
         record |-> mediaToAttachmentFileRecord(existing[1], st.medias[existing[1]]) ]
  ELSE Stored(uploadFile(st, u.att.bytes, u.att.filename))

UploadJoin(u, step, rest) ==
  [ st |-> rest.st,
    uploads |-> step.n + rest.uploads,
    records |-> <<FileRecord(u, step.record)>> \o rest.records ]

\* the upload loop; existingFilesByChecksum is the lookup taken before the
\* loop and is not updated by it
RECURSIVE UploadLoop(_, _, _)
RECURSIVE UploadRest(_, _, _, _)
UploadLoop(st, ups, existingFilesByChecksum) ==
  IF ups = <<>> THEN [st |-> st, records |-> <<>>, uploads |-> 0]
  ELSE UploadRest(Head(ups),
                  UploadStep(st, Head(ups),
                             existingFilesByChecksum[calculateChecksum(Head(ups).att.bytes)]),
                  Tail(ups), existingFilesByChecksum)

UploadRest(u, step, ups, existingFilesByChecksum) ==
  UploadJoin(u, step, UploadLoop(step.st, ups, existingFilesByChecksum))

\* the records as the two loops left them: references first, then uploads
Unsorted(records) == records

\* fileRecords.sort((a, b) => a.index - b.index)
SortByIndex(records) ==
  [k \in 1..Len(records) |->
     records[CHOOSE i \in 1..Len(records) :
               Cardinality({j \in 1..Len(records) : records[j].index < records[i].index}) = k - 1]]

AttachmentEntry(fileRecord) ==
  [ contentString |-> None,
    subject |-> None,
    attachment |->
      Some([ url |-> MediaUrl(fileRecord.record.id),
             title |-> OrElse(fileRecord.description, fileRecord.record.filename) ]) ]

PayloadOf(sorted) == [k \in 1..Len(sorted) |-> AttachmentEntry(sorted[k])]

\* one batched checksum query whenever there is a new upload
QueriesFor(ups) == IF ups = <<>> THEN 0 ELSE 1

Built(refs, up, queries) ==
  [ ok |-> TRUE, error |-> NoError, st |-> up.st,
    payload |-> PayloadOf(SortByIndex(refs.records \o up.records)),
    uploads |-> up.uploads, queries |-> queries ]

Resolved(st, refs, ups, existingFilesByChecksum) ==
  IF ~refs.ok
  THEN [ ok |-> FALSE, error |-> refs.error, st |-> st, payload |-> <<>>,
         uploads |-> 0, queries |-> QueriesFor(ups) ]
  ELSE Built(refs, UploadLoop(st, ups, existingFilesByChecksum), QueriesFor(ups))

\* a variant that uploads before it looks at the references
UploadedThenResolved(st, refs, up, queries) ==
  IF ~refs.ok
  THEN [ ok |-> FALSE, error |-> refs.error, st |-> up.st, payload |-> <<>>,
         uploads |-> up.uploads, queries |-> queries ]
  ELSE Built(refs, up, queries)

processAttachmentsUploadFirst(st, attachments, existingFilesByChecksum) ==
  UploadedThenResolved(st, ReferenceLoop(st, fileReferences(attachments)),
                       UploadLoop(st, newUploads(attachments), existingFilesByChecksum),
                       QueriesFor(newUploads(attachments)))

\* processAttachments: references are read, the checksums looked up in one
\* query, then every reference is checked, then the uploads happen
processAttachments(st, attachments, existingFilesByChecksum) ==
  Resolved(st, ReferenceLoop(st, fileReferences(attachments)),
           newUploads(attachments), existingFilesByChecksum)

\* the payload entries of a record that carry a `Media/<id>` locator
LocatorEntries(c) ==
  {i \in 1..Len(c.payload) :
     /\ c.payload[i].attachment # None
     /\ MatchMediaId(Some(c.payload[i].attachment[1].url)) # None}

LocatorAt(c, i) == c.payload[i].attachment[1].url.id

\* payloadMap.set(mediaId, ...): the last entry of a Media id stays
LastEntryOf(c, entries, m) ==
  CHOOSE i \in entries :
    /\ LocatorAt(c, i) = m
    /\ \A j \in entries : LocatorAt(c, j) = m => j <= i

StoredAttachments(st, id, c, entries) ==
  { [ id |-> <<id, m>>,
      fileId |-> m,
      filename |-> st.medias[m].title,
      checksum |-> st.medias[m].checksum,
      description |-> c.payload[LastEntryOf(c, entries, m)].attachment[1].title ]
    : m \in {LocatorAt(c, i) : i \in entries} \cap DOMAIN st.medias }

\* getAttachments: the Media the notification's payload locators resolve to
getAttachments(st, id) ==
  IF id \notin DOMAIN st.comms THEN {}
  ELSE StoredAttachments(st, id, st.comms[id], LocatorEntries(st.comms[id]))

(***************************************************************************)
(* The resource mapping layer: encode.                                     *)
(* A notification input is [form, userId, emailOrPhone, firstName,         *)
(* lastName, notificationType, contextName, contextParameters, title,      *)
(* bodyTemplate, subjectTemplate, sendAfter, extraParams, gitCommitSha,    *)
(* attachments]; form "regular" carries userId, form "one-off" the triple. *)
(***************************************************************************)
basePayload(n) ==
  IF n.bodyTemplate # ""
  THEN <<[ contentString |-> Some(n.bodyTemplate),
           subject |-> OrNull(n.subjectTemplate),
           attachment |-> None ]>>
  ELSE <<>>

identifiersOf(n) ==
  <<[system |-> SysBodyTemplate, value |-> Some(n.bodyTemplate)]>>
  \o (IF Truthy(n.subjectTemplate)
      THEN <<[system |-> SysSubjectTemplate, value |-> n.subjectTemplate]>> ELSE <<>>)
  \o (IF Truthy(n.gitCommitSha)
      THEN <<[system |-> SysGitCommitSha, value |-> n.gitCommitSha]>> ELSE <<>>)

regularCommunication(n, payload) ==
  [ status |-> "in-progress",
    sent |-> IF n.sendAfter # None THEN Some(toISOString(n.sendAfter[1])) ELSE None,
    topic |-> OrNull(n.title),
    payload |-> payload,
    identifier |-> identifiersOf(n),
    recipient |-> Some(n.userId),
    note |-> Some(JSONstringify(n.contextParameters)),
    extension |-> <<>>,
    tag |-> <<TagNotification, n.contextName, n.notificationType>>,
    lastUpdated |-> None ]

oneOffCommunication(n, payload) ==
  [ status |-> "in-progress",
    sent |-> IF n.sendAfter # None THEN Some(toISOString(n.sendAfter[1])) ELSE None,
    topic |-> OrNull(n.title),
    payload |-> payload,
    identifier |-> identifiersOf(n),
    recipient |-> None,
    note |-> Some(JSONstringify(n.contextParameters)),
    extension |-> << [url |-> UrlEmailOrPhone, valueString |-> Some(n.emailOrPhone)],
                     [url |-> UrlFirstName, valueString |-> Some(n.firstName)],
                     [url |-> UrlLastName, valueString |-> Some(n.lastName)] >>,
    tag |-> <<TagNotification, n.contextName, n.notificationType, TagOneOff>>,
    lastUpdated |-> None ]

CommunicationOf(n, payload) ==
  IF n.form = "one-off" THEN oneOffCommunication(n, payload)
  ELSE regularCommunication(n, payload)

NoAttachments(st) ==
  [ ok |-> TRUE, error |-> NoError, st |-> st, payload |-> <<>>,
    uploads |-> 0, queries |-> 0 ]

Created(n, clock, pa, id, st2) ==
  [ ok |-> TRUE, error |-> NoError, st |-> st2, id |-> id,
    result |-> Some(mapToDatabaseNotification(id, st2.comms[id], clock)),
    attachments |-> IF Len(n.attachments) > 0 THEN getAttachments(st2, id) ELSE {},
    uploads |-> pa.uploads, queries |-> pa.queries ]

Persisted(n, clock, pa) ==
  IF ~pa.ok
  THEN [ ok |-> FALSE, error |-> pa.error, st |-> pa.st, id |-> -1, result |-> None,
         attachments |-> {}, uploads |-> pa.uploads, queries |-> pa.queries ]
  ELSE Created(n, clock, pa, pa.st.nextId,
               createCommunication(pa.st, CommunicationOf(n, basePayload(n) \o pa.payload),
                                   clock))

\* persistNotification / persistOneOffNotification from the store st on:
\* attachments first, then the record, then the mapped result with the
\* attachments read back
persist(st, n, existingFilesByChecksum, clock) ==
  Persisted(n, clock,
            IF Len(n.attachments) > 0
            THEN processAttachments(st, n.attachments, existingFilesByChecksum)
            ELSE NoAttachments(st))

\* a createResource of the call raises after k creations went through:
\* neither persistNotification, processAttachments nor uploadFile catches
\* it, and none takes back what the earlier creations made
Below(f, bound) == [x \in {d \in DOMAIN f : d < bound} |-> f[x]]

CreatedBefore(st, bound) ==
  [ comms |-> Below(st.comms, bound), medias |-> Below(st.medias, bound),
    binaries |-> Below(st.binaries, bound), nextId |-> bound ]

\* uploadFile makes two resources and storeAttachmentFileRecord one
CreationsPerUpload == 3

UploadsStarted(r, k) ==
  IF (k \div CreationsPerUpload) + 1 < r.uploads
  THEN (k \div CreationsPerUpload) + 1 ELSE r.uploads

Interrupted(st, r, k) ==
  [ ok |-> FALSE, error |-> StoreRejected(st.nextId + k),
    st |-> CreatedBefore(r.st, st.nextId + k), id |-> -1, result |-> None,
    attachments |-> {}, uploads |-> UploadsStarted(r, k), queries |-> r.queries ]

Creations(st, r) == IF r.ok THEN r.st.nextId - st.nextId ELSE 0

(***************************************************************************)
(* Search parameters.  A params object is the sequence of its              *)
(* <<key, value>> entries in insertion order; a value is the sequence of   *)
(* the comma-free pieces of the string it stands for.                      *)
(***************************************************************************)
HasParam(params, key) == \E i \in 1..Len(params) : params[i][1] = key

GetParam(params, key) ==
  params[CHOOSE i \in 1..Len(params) : params[i][1] = key][2]

\* params[key] = value: an existing key keeps its place
SetParam(params, key, value) ==
  IF HasParam(params, key)
  THEN [i \in 1..Len(params) |->
          IF params[i][1] = key THEN <<key, value>> ELSE params[i]]
  ELSE Append(params, <<key, value>>)

\* a string is truthy unless it is empty
TruthyParam(params, key) ==
  HasParam(params, key) /\ GetParam(params, key) \notin {<<>>, <<"">>}

\* params[key] = params[key] ? `${params[key]},${piece}` : piece
AppendPiece(params, key, piece) ==
  SetParam(params, key,
           IF TruthyParam(params, key) THEN GetParam(params, key) \o <<piece>>
           ELSE <<piece>>)

OkParams(params) == [ok |-> TRUE, error |-> NoError, params |-> params]
Raised(error) == [ok |-> FALSE, error |-> error, params |-> <<>>]

(***************************************************************************)
(* The filter compiler.  A filter tree is [kind, fields, children]: kind   *)
(* "leaf" carries fields (each absent or given), kinds "and" and "or"      *)
(* carry children, kind "not" carries its one child.  A string field       *)
(* is [value, lookup, caseSensitive]; lookup "plain" is a bare string.     *)
(***************************************************************************)
NoFields ==
  [ status |-> None, notificationType |-> None, contextName |-> None,
    userId |-> None, adapterUsed |-> None, bodyTemplate |-> None,
    subjectTemplate |-> None, sendAfterRange |-> None, sentAtRange |-> None,
    createdAtRange |-> None ]

Leaf(fields) == [kind |-> "leaf", fields |-> fields, children |-> <<>>]
AndOf(children) == [kind |-> "and", fields |-> NoFields, children |-> children]
OrOf(children) == [kind |-> "or", fields |-> NoFields, children |-> children]
NotOf(child) == [kind |-> "not", fields |-> NoFields, children |-> <<child>>]

Plain(text) == [value |-> text, lookup |-> "plain", caseSensitive |-> TRUE]

\* isFieldFilter of the vintasend library: a node that is none of and, or, not
isFieldFilter(filter) == filter.kind = "leaf"

mapStatusToFhirStatus(status) ==
  CASE status = "PENDING_SEND" -> Some("in-progress")
    [] status \in {"SENT", "READ"} -> Some("completed")
    [] status = "FAILED" -> Some("stopped")
    [] status = "CANCELLED" -> Some("not-done")
    [] OTHER -> None

Unwrap(options) == [i \in 1..Len(options) |-> options[i][1]]

\* statuses.map(mapStatusToFhirStatus).filter(s => s !== null)
FhirStatuses(statuses) ==
  Unwrap(SelectSeq([i \in 1..Len(statuses) |-> mapStatusToFhirStatus(statuses[i])],
                   LAMBDA o : o # None))

resolveStringFieldForFhir(fieldName, value) ==
  IF value.lookup = "plain" THEN [ok |-> TRUE, error |-> NoError, value |-> value.value]
  ELSE IF value.lookup # "exact"
  THEN [ok |-> FALSE, error |-> LookupUnsupported(fieldName, value.lookup), value |-> ""]
  ELSE IF value.caseSensitive = FALSE
  THEN [ok |-> FALSE, error |-> CaseInsensitiveUnsupported(fieldName), value |-> ""]
  ELSE [ok |-> TRUE, error |-> NoError, value |-> value.value]

ResolveError(fieldName, field) ==
  IF field = None THEN NoError ELSE resolveStringFieldForFhir(fieldName, field[1]).error

\* the first string field, in the order the compiler reads them, that it
\* refuses
StringFieldError(f) ==
  IF ResolveError("contextName", f.contextName) # NoError
  THEN ResolveError("contextName", f.contextName)
  ELSE IF ResolveError("bodyTemplate", f.bodyTemplate) # NoError
  THEN ResolveError("bodyTemplate", f.bodyTemplate)
  ELSE ResolveError("subjectTemplate", f.subjectTemplate)

Resolved1(fieldName, field) == resolveStringFieldForFhir(fieldName, field[1]).value

IdentifierPiece(system, value) == system \o "|" \o value

StatusStep(params, f, key) ==
  IF f.status # None /\ FhirStatuses(f.status[1]) # <<>>
  THEN SetParam(params, key, FhirStatuses(f.status[1]))
  ELSE params

TypeStep(params, f, key) ==
  IF f.notificationType # None THEN SetParam(params, key, f.notificationType[1])
  ELSE params

ContextStep(params, f, key) ==
  IF f.contextName # None
  THEN AppendPiece(params, key, Resolved1("contextName", f.contextName))
  ELSE params

UserStep(params, f, key) ==
  IF f.userId # None THEN SetParam(params, key, <<f.userId[1]>>) ELSE params

AdapterStep(params, f, key) ==
  IF f.adapterUsed # None
  THEN SetParam(params, key,
                [i \in 1..Len(f.adapterUsed[1]) |->
                   IdentifierPiece(SysAdapterUsed, f.adapterUsed[1][i])])
  ELSE params

BodyStep(params, f, key) ==
  IF f.bodyTemplate # None
  THEN AppendPiece(params, key,
                   IdentifierPiece(SysBodyTemplate, Resolved1("bodyTemplate", f.bodyTemplate)))
  ELSE params

SubjectStep(params, f, key) ==
  IF f.subjectTemplate # None
  THEN AppendPiece(params, key,
                   IdentifierPiece(SysSubjectTemplate,
                                   Resolved1("subjectTemplate", f.subjectTemplate)))
  ELSE params

FromStep(params, range, key) ==
  IF range # None /\ range[1].from # None
  THEN SetParam(params, key, <<toISOString(range[1].from[1])>>)
  ELSE params

ToStep(params, range, key) ==
  IF range # None /\ range[1].to # None
  THEN SetParam(params, key, <<toISOString(range[1].to[1])>>)
  ELSE params

RangeStep(params, range, geKey, leKey) ==
  ToStep(FromStep(params, range, geKey), range, leKey)

\* the fields every leaf shares with its negation, in the order they are read
TokenSteps(f, status, tag, recipient, identifier) ==
  SubjectStep(
    BodyStep(
      AdapterStep(
        UserStep(
          ContextStep(
            TypeStep(
              StatusStep(<<>>, f, status),
              f, tag),
            f, tag),
          f, recipient),
        f, identifier),
      f, identifier),
    f, identifier)

fieldFilterToFhirParams(f) ==
  IF StringFieldError(f) # NoError THEN Raised(StringFieldError(f))
  ELSE OkParams(
         RangeStep(
           RangeStep(
             RangeStep(TokenSteps(f, "status", "_tag", "recipient", "identifier"),
                       f.sendAfterRange, "sent:ge", "sent:le"),
             f.sentAtRange, "sent:ge", "sent:le"),
           f.createdAtRange, "_lastUpdated:ge", "_lastUpdated:le"))

NegatedParams(params) ==
  IF params = <<>> THEN Raised(NotWithoutField) ELSE OkParams(params)

\* a negation that drops the ranges instead of refusing them
negateFilterDroppingRanges(inner) ==
  IF ~isFieldFilter(inner) THEN Raised(NotOnlySimple)
  ELSE IF StringFieldError(inner.fields) # NoError
  THEN Raised(StringFieldError(inner.fields))
  ELSE NegatedParams(TokenSteps(inner.fields, "status:not", "_tag:not",
                                "recipient:not", "identifier:not"))

negateFilter(inner) ==
  IF ~isFieldFilter(inner) THEN Raised(NotOnlySimple)
  ELSE IF StringFieldError(inner.fields) # NoError
  THEN Raised(StringFieldError(inner.fields))
  ELSE IF inner.fields.sentAtRange # None THEN Raised(NotOnRange("sentAtRange"))
  ELSE IF inner.fields.sendAfterRange # None THEN Raised(NotOnRange("sendAfterRange"))
  ELSE IF inner.fields.createdAtRange # None THEN Raised(NotOnRange("createdAtRange"))
  ELSE NegatedParams(TokenSteps(inner.fields, "status:not", "_tag:not",
                                "recipient:not", "identifier:not"))

\* a merge that keeps the later value of a key two sub-filters both set
mergeEntryOverwrite(merged, key, value) == OkParams(SetParam(merged, key, value))

\* one entry of a sub-filter's params merged into what the AND has so far
mergeEntry(merged, key, value) ==
  IF HasParam(merged, key) /\ GetParam(merged, key) # value
  THEN Raised(ConflictingValues(key, GetParam(merged, key), value))
  ELSE OkParams(SetParam(merged, key, value))

RECURSIVE MergeEntries(_, _)
MergeEntries(merged, entries) ==
  IF entries = <<>> \/ ~merged.ok THEN merged
  ELSE MergeEntries(mergeEntry(merged.params, Head(entries)[1], Head(entries)[2]),
                    Tail(entries))

MergeSub(merged, sub) ==
  IF ~sub.ok THEN sub ELSE MergeEntries(merged, sub.params)

RECURSIVE buildFhirSearchParams(_)
RECURSIVE MergeLoop(_, _)

MergeLoop(merged, subFilters) ==
  IF subFilters = <<>> \/ ~merged.ok THEN merged
  ELSE MergeLoop(MergeSub(merged, buildFhirSearchParams(Head(subFilters))),
                 Tail(subFilters))

mergeAndFilters(subFilters) == MergeLoop(OkParams(<<>>), subFilters)

buildFhirSearchParams(filter) ==
  IF filter.kind = "or" THEN Raised(OrUnsupported)
  ELSE IF filter.kind = "and" THEN mergeAndFilters(filter.children)
  ELSE IF filter.kind = "not" THEN negateFilter(filter.children[1])
  ELSE fieldFilterToFhirParams(filter.fields)

\* numbers as the decimal text Number.toString gives, and back
DecimalText ==
  <<"0", "1", "2", "3", "4", "5", "6", "7", "8", "9", "10", "11", "12">>
numberToString(n) == DecimalText[n + 1]
parseInt(text) == (CHOOSE i \in 1..Len(DecimalText) : DecimalText[i] = text) - 1

\* a post-merge step that leaves the `_tag` parameter as the filter built it
keepTagParameter(params) == params

ensureNotificationTag(params) ==
  IF TruthyParam(params, "_tag")
  THEN IF TagNotification \in SeqToSet(GetParam(params, "_tag")) THEN params
       ELSE SetParam(params, "_tag", <<TagNotification>> \o GetParam(params, "_tag"))
  ELSE SetParam(params, "_tag", <<TagNotification>>)

\* one tuple per `_tag` piece, one tuple for any other parameter
TuplesOfEntry(entry) ==
  IF entry[1] = "_tag"
  THEN [i \in 1..Len(entry[2]) |-> <<"_tag", <<entry[2][i]>> >>]
  ELSE <<entry>>

RECURSIVE TuplesOf(_)
TuplesOf(params) ==
  IF params = <<>> THEN <<>>
  ELSE TuplesOfEntry(Head(params)) \o TuplesOf(Tail(params))

paramsToSearchTuples(params) == TuplesOf(ensureNotificationTag(params))

Paged(params, page, pageSize) ==
  SetParam(SetParam(params, "_count", <<numberToString(pageSize)>>),
           "_offset", <<numberToString(page * pageSize)>>)

\* filterNotifications up to the query it hands to the store
CompiledQuery(filter, page, pageSize, built) ==
  IF ~built.ok THEN [ok |-> FALSE, error |-> built.error, tuples |-> <<>>]
  ELSE [ok |-> TRUE, error |-> NoError,
        tuples |-> paramsToSearchTuples(Paged(built.params, page, pageSize))]

compileFilter(filter, page, pageSize) ==
  IF filter.kind = "or"
  THEN [ok |-> FALSE, error |-> OrUnsupported, tuples |-> <<>>]
  ELSE CompiledQuery(filter, page, pageSize, buildFhirSearchParams(filter))

(***************************************************************************)
(* The store's search over Communication records: the tuples are AND-ed,   *)
(* the comma-separated pieces of one tuple's value are OR-ed, and a record *)
(* that lacks the element a tuple tests does not match it.                 *)
(***************************************************************************)
IdentifierPieces(c) ==
  {IdentifierPiece(c.identifier[i].system, c.identifier[i].value[1]) :
     i \in {j \in 1..Len(c.identifier) : c.identifier[j].value # None}}

MatchesToken(c, name, pieces) ==
  CASE name = "status" -> c.status \in pieces
    [] name = "_tag" -> pieces \cap SeqToSet(c.tag) # {}
    [] name = "recipient" -> c.recipient # None /\ c.recipient[1] \in pieces
    [] name = "identifier" -> pieces \cap IdentifierPieces(c) # {}
    [] OTHER -> TRUE

MatchesDate(c, element, comparator, text) ==
  /\ element # None
  /\ CASE comparator = "ge" -> newDate(element[1]) >= newDate(text)
       [] comparator = "le" -> newDate(element[1]) <= newDate(text)
       [] comparator = "gt" -> newDate(element[1]) > newDate(text)
       [] OTHER -> FALSE

MatchesTuple(c, key, value) ==
  CASE key \in {"status", "_tag", "recipient", "identifier"} ->
         MatchesToken(c, key, SeqToSet(value))
    [] key = "status:not" -> ~MatchesToken(c, "status", SeqToSet(value))
    [] key = "_tag:not" -> ~MatchesToken(c, "_tag", SeqToSet(value))
    [] key = "recipient:not" -> ~MatchesToken(c, "recipient", SeqToSet(value))
    [] key = "identifier:not" -> ~MatchesToken(c, "identifier", SeqToSet(value))
    [] key = "sent:ge" -> MatchesDate(c, c.sent, "ge", value[1])
    [] key = "sent:le" -> MatchesDate(c, c.sent, "le", value[1])
    [] key = "sent:gt" -> MatchesDate(c, c.sent, "gt", value[1])
    [] key = "_lastUpdated:ge" -> MatchesDate(c, c.lastUpdated, "ge", value[1])
    [] key = "_lastUpdated:le" -> MatchesDate(c, c.lastUpdated, "le", value[1])
    [] OTHER -> TRUE

Matching(st, tuples) ==
  {id \in DOMAIN st.comms :
     \A i \in 1..Len(tuples) : MatchesTuple(st.comms[id], tuples[i][1], tuples[i][2])}

\* the orders in which the store may list a set of records
Orderings(ids) ==
  {s \in [1..Cardinality(ids) -> ids] : \A i, j \in 1..Cardinality(ids) : s[i] = s[j] => i = j}

TupleValue(tuples, key, default) ==
  IF \E i \in 1..Len(tuples) : tuples[i][1] = key
  THEN parseInt(tuples[CHOOSE i \in 1..Len(tuples) : tuples[i][1] = key][2][1])
  ELSE default

Min(a, b) == IF a <= b THEN a ELSE b

\* _offset and _count applied to the listed records
PageOf(order, offset, count) ==
  IF offset >= Len(order) THEN <<>>
  ELSE SubSeq(order, offset + 1, Min(offset + count, Len(order)))

MapAll(st, ids, clock) ==
  [i \in 1..Len(ids) |-> mapToDatabaseNotification(ids[i], st.comms[ids[i]], clock)]

\* searchResources('Communication', tuples) followed by the map to
\* notifications, for one order the store may list the matches in
searchCommunications(st, tuples, order, clock) ==
  MapAll(st,
         PageOf(order, TupleValue(tuples, "_offset", 0),
                TupleValue(tuples, "_count", Len(order))),
         clock)

\* the query of getAllPendingNotifications / getPendingNotifications
PendingParams(clock) ==
  << <<"status", <<"in-progress">> >>,
     <<"_tag", <<TagNotification>> >>,
     <<"sent:le", <<toISOString(clock)>> >> >>

(***************************************************************************)
(* File cleanup.                                                           *)
(***************************************************************************)
\* url.includes(fileId): ids are UUIDs, so a locator includes an id exactly
\* when it names it
UrlIncludes(url, fileId) == url.id = fileId

\* comm.payload?.some(p => p.contentAttachment?.url?.includes(fileId)) over
\* the notification records; a search that rejects is caught and answers
\* "not referenced"
isFileReferencedByNotifications(st, fileId, searchOk) ==
  /\ searchOk
  /\ \E id \in DOMAIN st.comms :
       /\ TagNotification \in SeqToSet(st.comms[id].tag)
       /\ \E i \in 1..Len(st.comms[id].payload) :
            /\ st.comms[id].payload[i].attachment # None
            /\ UrlIncludes(st.comms[id].payload[i].attachment[1].url, fileId)

\* the backend's own deleteResource('Media', fileId) after the manager's:
\* the manager has deleted that Media already when both name the same id,
\* and whether the store accepts deleting a deleted resource is the store's
\* choice
BackendDelete(deleted, fileId, goneOk) ==
  IF ~deleted.ok
  THEN [outcome |-> "raised", error |-> StoreRejected(fileId), st |-> deleted.st]
  ELSE IF fileId \in DOMAIN deleted.st.medias
  THEN [outcome |-> "ok", error |-> NoError, st |-> DropMedia(deleted.st, fileId)]
  ELSE IF goneOk
  THEN [outcome |-> "ok", error |-> NoError, st |-> deleted.st]
  ELSE [outcome |-> "raised", error |-> StoreRejected(fileId), st |-> deleted.st]

DeleteRecord(st, fileId, fileRecord, searchOk, binaryDeleteOk, goneOk) ==
  IF fileRecord = None
  THEN [outcome |-> "ok", error |-> NoError, st |-> st]
  ELSE IF isFileReferencedByNotifications(st, fileId, searchOk)
  THEN [outcome |-> "raised", error |-> StillReferenced(fileId), st |-> st]
  ELSE BackendDelete(deleteFileByIdentifiers(st, fileRecord[1].storageIdentifiers,
                                             binaryDeleteOk),
                     fileId, goneOk)

deleteAttachmentFileFrom(st, fileId, searchOk, binaryDeleteOk, goneOk) ==
  DeleteRecord(st, fileId, getAttachmentFileRecord(st, fileId),
               searchOk, binaryDeleteOk, goneOk)

\* a scan that reads only the first locator of every notification record
FirstLocator(c, entries) ==
  IF entries = {} THEN {}
  ELSE {LocatorAt(c, CHOOSE i \in entries : \A j \in entries : i <= j)}

referencedIdsOfFirstLocator(st) ==
  UNION { FirstLocator(st.comms[id], LocatorEntries(st.comms[id])) :
          id \in {c \in DOMAIN st.comms : TagNotification \in SeqToSet(st.comms[c].tag)} }

\* the Media ids the notification records' payload locators name
referencedIds(st) ==
  UNION { {LocatorAt(st.comms[id], i) : i \in LocatorEntries(st.comms[id])} :
          id \in {c \in DOMAIN st.comms : TagNotification \in SeqToSet(st.comms[c].tag)} }

MetadataMedia(st) ==
  {m \in DOMAIN st.medias : TagBackendMetadata \in SeqToSet(st.medias[m].tag)}

orphanedFiles(st) ==
  {mediaToAttachmentFileRecord(m, st.medias[m]) : m \in MetadataMedia(st) \ referencedIds(st)}

(***************************************************************************)
(* Detaching a file from a notification.                                   *)
(***************************************************************************)
\* an attachment id is the text a caller passes: the pair
\* `${notificationId}-${media.id}` that getAttachments returns as `id`, or
\* a file id alone.  url.includes(attachmentId) on `Media/<id>`: ids are
\* UUIDs, so the locator includes the file id it names and never the
\* hyphenated pair
Includes(url, attachmentId) == attachmentId = <<url.id>>

hasAttachment(c, attachmentId) ==
  \E i \in 1..Len(c.payload) :
    /\ c.payload[i].attachment # None
    /\ Includes(c.payload[i].attachment[1].url, attachmentId)

updatedPayload(c, attachmentId) ==
  SelectSeq(c.payload,
            LAMBDA p : p.attachment = None
                       \/ ~Includes(p.attachment[1].url, attachmentId))

deleteNotificationAttachmentFrom(st, id, attachmentId) ==
  IF id \notin DOMAIN st.comms
  THEN [outcome |-> "raised", error |-> StoreRejected(id), st |-> st]
  ELSE IF ~hasAttachment(st.comms[id], attachmentId)
  THEN [outcome |-> "raised", error |-> AttachmentNotFoundFor(id), st |-> st]
  ELSE [ outcome |-> "ok", error |-> NoError,
         st |-> [st EXCEPT !.comms =
                   Put(st.comms, id,
                       [st.comms[id] EXCEPT
                          !.payload = updatedPayload(st.comms[id], attachmentId)])] ]

(***************************************************************************)
(* Inputs.                                                                 *)
(***************************************************************************)
UserIds == {"U1", "U2"}
NotificationTypes == {"EMAIL", "SMS"}
ParamObjects == {EmptyObject, << <<"param1", "value1">> >>}
ExtraObjects == {None, Some(EmptyObject), Some(<< <<"key", "value">> >>)}
Titles == {None, Some("Test Title")}
Subjects == {None, Some("subject.pug")}
Shas == {None, Some("a1b2c3")}
SendAfters == {None, Some(1)}

RegularInputs(userIds, types, params, titles, subjects, sendAfters, extras, shas,
              attachmentLists) ==
  [ form : {"regular"}, userId : userIds,
    emailOrPhone : {""}, firstName : {""}, lastName : {""},
    notificationType : types, contextName : {"welcome"},
    contextParameters : params, title : titles,
    bodyTemplate : {"body.pug"}, subjectTemplate : subjects,
    sendAfter : sendAfters, extraParams : extras,
    gitCommitSha : shas, attachments : attachmentLists ]

OneOffInputs(types, params, titles, subjects, sendAfters, extras, shas,
             attachmentLists) ==
  [ form : {"one-off"}, userId : {""},
    emailOrPhone : {"john@example.com"}, firstName : {"John"}, lastName : {"Doe"},
    notificationType : types, contextName : {"welcome"},
    contextParameters : params, title : titles,
    bodyTemplate : {"body.pug"}, subjectTemplate : subjects,
    sendAfter : sendAfters, extraParams : extras,
    gitCommitSha : shas, attachments : attachmentLists ]

\* the mapping layer: every field varies, no attachments
MapRegularInputs ==
  RegularInputs(UserIds, NotificationTypes, ParamObjects, Titles, Subjects, SendAfters,
                ExtraObjects, Shas, {<<>>})
MapOneOffInputs ==
  OneOffInputs(NotificationTypes, ParamObjects, Titles, Subjects, SendAfters,
               ExtraObjects, Shas, {<<>>})

\* the filter compiler: records that differ in what the filters test
FilterRecordInputs ==
  RegularInputs(UserIds, NotificationTypes, {EmptyObject}, {None}, {None}, {None},
                {None}, {None}, {<<>>})

\* the attachment engine: one notification shape, every attachment list
Contents == {"hello", "world"}
Filenames == {"a.txt", "b.txt"}
MissingFileId == 0

\* the new uploads: one content under two names, and another content
NewFiles ==
  {f \in [ kind : {"file"}, bytes : Contents, filename : Filenames,
           fileId : {MissingFileId}, description : {None} ] :
     f.bytes = "world" => f.filename = "a.txt"}

AttachmentInputs(fileIds) ==
  NewFiles
  \cup
  [ kind : {"ref"}, bytes : {""}, filename : {""}, fileId : fileIds,
    description : {None} ]

\* the file ids a caller names: those of the backend's metadata records, and
\* one that names nothing
KnownFileIds == MetadataMedia(Store) \cup {MissingFileId}

AttachmentLists(fileIds) ==
  UNION {[1..k -> AttachmentInputs(fileIds)] : k \in 1..MaxAttachments}

AttachInputs(fileIds) ==
  RegularInputs({"U1"}, {"EMAIL"}, {EmptyObject}, {None}, {None}, {None},
                {None}, {None}, AttachmentLists(fileIds))

\* filter trees: leaves, their pairs under AND and OR, and the nestings of
\* OR and NOT
StatusLeaf(statuses) == Leaf([NoFields EXCEPT !.status = Some(statuses)])
TypeLeaf(type) == Leaf([NoFields EXCEPT !.notificationType = Some(<<type>>)])
ContextLeaf(name) == Leaf([NoFields EXCEPT !.contextName = Some(Plain(name))])
UserLeaf(userId) == Leaf([NoFields EXCEPT !.userId = Some(userId)])
TypeAndContextLeaf(type, name) ==
  Leaf([NoFields EXCEPT !.notificationType = Some(<<type>>),
                        !.contextName = Some(Plain(name))])
SendAfterLeaf(from, to) ==
  Leaf([NoFields EXCEPT !.sendAfterRange = Some([from |-> from, to |-> to])])

FilterLeaves ==
  { StatusLeaf(<<"SENT">>), StatusLeaf(<<"FAILED">>), StatusLeaf(<<"PENDING_SEND">>),
    TypeLeaf("EMAIL"), ContextLeaf("welcome"), UserLeaf("U1"),
    TypeAndContextLeaf("EMAIL", "welcome"), SendAfterLeaf(Some(1), None),
    Leaf(NoFields) }

FewLeaves == {StatusLeaf(<<"SENT">>), TypeLeaf("EMAIL")}

\* the five domain statuses, each filtered for alone
NotificationStatuses == {"PENDING_SEND", "SENT", "FAILED", "READ", "CANCELLED"}
StatusLeaves == {StatusLeaf(<<s>>) : s \in NotificationStatuses}

\* string lookups on contextName: the bare string is in FilterLeaves; here
\* the lookup objects, exact and not, case-sensitive and not
ContextLookupLeaf(lookup, caseSensitive) ==
  Leaf([NoFields EXCEPT !.contextName =
          Some([value |-> "welcome", lookup |-> lookup, caseSensitive |-> caseSensitive])])

LookupLeaves ==
  { ContextLookupLeaf("exact", TRUE), ContextLookupLeaf("exact", FALSE),
    ContextLookupLeaf("startsWith", TRUE), ContextLookupLeaf("endsWith", TRUE),
    ContextLookupLeaf("includes", TRUE) }

\* the three date ranges, alone and next to a negatable field
RangeLeaves ==
  { SendAfterLeaf(Some(1), None),
    Leaf([NoFields EXCEPT !.sentAtRange = Some([from |-> Some(0), to |-> Some(1)])]),
    Leaf([NoFields EXCEPT !.createdAtRange = Some([from |-> None, to |-> Some(1)])]),
    Leaf([NoFields EXCEPT !.status = Some(<<"SENT">>),
                          !.sendAfterRange = Some([from |-> Some(1), to |-> None])]),
    Leaf([NoFields EXCEPT !.userId = Some("U1"),
                          !.sentAtRange = Some([from |-> Some(0), to |-> None]),
                          !.createdAtRange = Some([from |-> Some(0), to |-> None])]) }

\* one predicate with an array of types, and one with two fields that go to
\* the same search parameter
ManyValueLeaves ==
  { Leaf([NoFields EXCEPT !.notificationType = Some(<<"EMAIL", "SMS">>)]),
    Leaf([NoFields EXCEPT !.bodyTemplate = Some(Plain("body.pug")),
                          !.subjectTemplate = Some(Plain("subject.pug"))]),
    Leaf([NoFields EXCEPT !.sendAfterRange = Some([from |-> Some(1), to |-> None]),
                          !.sentAtRange = Some([from |-> Some(0), to |-> None])]) }

FilterOrs == {OrOf(<<a, b>>) : a, b \in FewLeaves}

FilterTrees ==
  FilterLeaves
  \cup {AndOf(<<a, b>>) : a, b \in FilterLeaves}
  \cup FilterOrs
  \cup {NotOf(a) : a \in FilterLeaves \cup FilterOrs}
  \cup {AndOf(<<a, b>>) : a \in FewLeaves, b \in FilterOrs}
  \cup {AndOf(<<b, a>>) : a \in FewLeaves, b \in FilterOrs}
  \cup {AndOf(<<a, NotOf(b)>>) : a \in FewLeaves, b \in FewLeaves \cup FilterOrs}
  \cup {NotOf(AndOf(<<a, b>>)) : a, b \in FewLeaves}
  \cup {AndOf(<<a, b, StatusLeaf(<<"FAILED">>)>>) : a, b \in FewLeaves}
  \cup LookupLeaves \cup RangeLeaves
  \cup {NotOf(a) : a \in LookupLeaves \cup RangeLeaves}
  \cup {NotOf(NotOf(a)) : a \in FewLeaves}
  \cup StatusLeaves
  \cup ManyValueLeaves
  \cup {AndOf(<<a, b>>) : a \in FewLeaves, b \in LookupLeaves}

Pages == {0, 1}
PageSizes == 1..MaxPageSize

\* the pages asked of filterNotifications: everything on one page, and the
\* second page of one record
FilterPages == {<<0, MaxPageSize>>, <<1, 1>>}

(***************************************************************************)
(* Actions: one per backend call.                                          *)
(***************************************************************************)
SetStore(st) ==
  /\ comms' = st.comms
  /\ medias' = st.medias
  /\ binaries' = st.binaries
  /\ nextId' = st.nextId

PersistReturns(op, n, searchOk, r) ==
  /\ SetStore(r.st)
  /\ last' = [ NoCall EXCEPT
                 !.op = op,
                 !.outcome = IF r.ok THEN "ok" ELSE "raised",
                 !.error = r.error,
                 !.input = Some(n),
                 !.id = r.id,
                 !.result = r.result,
                 !.attachments = r.attachments,
                 !.uploads = r.uploads,
                 !.queries = r.queries,
                 !.lookupOk = searchOk,
                 !.searched = r.queries > 0 ]

PersistCall(op, n, limit) ==
  /\ Cardinality(DOMAIN comms) < limit
  /\ nextId <= MaxIds
  /\ \E searchRaises \in BOOLEAN :
       \E existingFilesByChecksum \in
            findAttachmentFilesByChecksums(Store, UploadChecksums(n.attachments),
                                           ~searchRaises) :
         PersistReturns(op, n, ~searchRaises,
                        persist(Store, n, existingFilesByChecksum, now))
  /\ UNCHANGED now

\* the same call when the store rejects one of its creations
InterruptedCall(op, n, searchOk, r) ==
  \E k \in 0..(Creations(Store, r) - 1) :
    PersistReturns(op, n, searchOk, Interrupted(Store, r, k))

PersistCallStoreRaises(op, n, limit) ==
  /\ Cardinality(DOMAIN comms) < limit
  /\ nextId <= MaxIds
  /\ \E searchRaises \in BOOLEAN :
       \E existingFilesByChecksum \in
            findAttachmentFilesByChecksums(Store, UploadChecksums(n.attachments),
                                           ~searchRaises) :
         InterruptedCall(op, n, ~searchRaises,
                         persist(Store, n, existingFilesByChecksum, now))
  /\ UNCHANGED now

persistNotificationStoreRaises(n, limit) ==
  /\ n.form = "regular"
  /\ PersistCallStoreRaises("persistNotification", n, limit)

persistNotification(n, limit) ==
  /\ n.form = "regular"
  /\ PersistCall("persistNotification", n, limit)

persistOneOffNotification(n, limit) ==
  /\ n.form = "one-off"
  /\ PersistCall("persistOneOffNotification", n, limit)

\* getNotification: the mapped record, or null when the read raises
getNotification(id) ==
  /\ last' = [ NoCall EXCEPT
                 !.op = "getNotification",
                 !.outcome = "ok",
                 !.id = id,
                 !.result = IF id \in DOMAIN comms
                            THEN Some(mapToDatabaseNotification(id, comms[id], now))
                            ELSE None ]
  /\ UNCHANGED <<comms, medias, binaries, nextId, now>>

QueryReturns(op, page, pageSize, tuples, order) ==
  /\ last' = [ NoCall EXCEPT
                 !.op = op,
                 !.outcome = "ok",
                 !.page = page,
                 !.pageSize = pageSize,
                 !.tuples = tuples,
                 !.searched = TRUE,
                 !.found = searchCommunications(Store, tuples, order, now) ]
  /\ UNCHANGED <<comms, medias, binaries, nextId, now>>

getAllPendingNotifications ==
  \E order \in Orderings(Matching(Store, PendingParams(now))) :
    QueryReturns("getAllPendingNotifications", 0, 0, PendingParams(now), order)

PendingPage(page, pageSize, tuples) ==
  \E order \in Orderings(Matching(Store, tuples)) :
    QueryReturns("getPendingNotifications", page, pageSize, tuples, order)

getPendingNotifications(page, pageSize) ==
  PendingPage(page, pageSize,
              PendingParams(now)
                \o << <<"_count", <<numberToString(pageSize)>> >>,
                      <<"_offset", <<numberToString(page * pageSize)>> >> >>)

FilterRaises(filter, page, pageSize, q) ==
  /\ ~q.ok
  /\ last' = [ NoCall EXCEPT
                 !.op = "filterNotifications",
                 !.outcome = "raised",
                 !.error = q.error,
                 !.filter = Some(filter),
                 !.page = page,
                 !.pageSize = pageSize ]
  /\ UNCHANGED <<comms, medias, binaries, nextId, now>>

FilterReturns(filter, page, pageSize, q) ==
  /\ q.ok
  /\ \E order \in Orderings(Matching(Store, q.tuples)) :
       last' = [ NoCall EXCEPT
                   !.op = "filterNotifications",
                   !.outcome = "ok",
                   !.filter = Some(filter),
                   !.page = page,
                   !.pageSize = pageSize,
                   !.tuples = q.tuples,
                   !.searched = TRUE,
                   !.found = searchCommunications(Store, q.tuples, order, now) ]
  /\ UNCHANGED <<comms, medias, binaries, nextId, now>>

FilterCall(filter, page, pageSize, q) ==
  \/ FilterRaises(filter, page, pageSize, q)
  \/ FilterReturns(filter, page, pageSize, q)

filterNotifications(filter, page, pageSize) ==
  FilterCall(filter, page, pageSize, compileFilter(filter, page, pageSize))

\* cancelNotification on a live notification: the record is deleted
cancelNotification(id) ==
  /\ id \in DOMAIN comms
  /\ comms' = Drop(comms, id)
  /\ last' = [NoCall EXCEPT !.op = "cancelNotification", !.outcome = "ok", !.id = id]
  /\ UNCHANGED <<medias, binaries, nextId, now>>

DeleteReturns(fileId, searchOk, d) ==
  /\ SetStore(d.st)
  /\ last' = [ NoCall EXCEPT
                 !.op = "deleteAttachmentFile",
                 !.outcome = d.outcome,
                 !.error = d.error,
                 !.id = fileId,
                 !.lookupOk = searchOk ]
  /\ UNCHANGED now

deleteAttachmentFile(fileId) ==
  \E searchRaises, binaryDeleteRaises, goneRaises \in BOOLEAN :
    DeleteReturns(fileId, ~searchRaises,
                  deleteAttachmentFileFrom(Store, fileId, ~searchRaises,
                                           ~binaryDeleteRaises, ~goneRaises))

\* deleteNotificationAttachment, asked with the id of a stored attachment
\* that getAttachments returned, or with its file id
DetachReturns(id, a, attachmentId, d) ==
  /\ SetStore(d.st)
  /\ last' = [ NoCall EXCEPT
                 !.op = "deleteNotificationAttachment",
                 !.outcome = d.outcome,
                 !.error = d.error,
                 !.id = id,
                 !.attachments = {a},
                 !.attachmentId = attachmentId ]
  /\ UNCHANGED now

deleteNotificationAttachment(id, a, attachmentId) ==
  DetachReturns(id, a, attachmentId,
                deleteNotificationAttachmentFrom(Store, id, attachmentId))

getOrphanedAttachmentFiles ==
  /\ last' = [ NoCall EXCEPT
                 !.op = "getOrphanedAttachmentFiles",
                 !.outcome = "ok",
                 !.searched = TRUE,
                 !.files = orphanedFiles(Store) ]
  /\ UNCHANGED <<comms, medias, binaries, nextId, now>>

\* the wall clock moves on
Tick ==
  /\ now < MaxTime
  /\ now' = now + 1
  /\ UNCHANGED <<comms, medias, binaries, nextId, last>>

Init ==
  /\ comms = <<>>
  /\ medias = <<>>
  /\ binaries = <<>>
  /\ nextId = 1
  /\ now = 0
  /\ last = NoCall

(***************************************************************************)
(* The mapping layer and the pending queries: persist a record, read it    *)
(* back, ask what is due as the clock moves.                               *)
(***************************************************************************)
NextMap ==
  \/ \E n \in MapRegularInputs : persistNotification(n, MaxMapRecords)
  \/ \E n \in MapOneOffInputs : persistOneOffNotification(n, MaxMapRecords)
  \/ \E id \in 1..nextId : getNotification(id)
  \/ getAllPendingNotifications
  \/ \E page \in Pages, pageSize \in PageSizes : getPendingNotifications(page, pageSize)
  \/ Tick

SpecMap == Init /\ [][NextMap]_vars

(***************************************************************************)
(* The filter compiler over a store of a few records.                      *)
(***************************************************************************)
NextFilter ==
  \/ \E n \in FilterRecordInputs : persistNotification(n, MaxFilterRecords)
  \/ \E filter \in FilterTrees, paging \in FilterPages :
       filterNotifications(filter, paging[1], paging[2])

SpecFilter == Init /\ [][NextFilter]_vars

(***************************************************************************)
(* The attachment engine and file cleanup.                                 *)
(***************************************************************************)
NextAttach ==
  \/ \E n \in AttachInputs(KnownFileIds) : persistNotification(n, MaxNotifications)
  \/ \E id \in DOMAIN comms : cancelNotification(id)
  \/ \E fileId \in KnownFileIds : deleteAttachmentFile(fileId)
  \/ getOrphanedAttachmentFiles
  \/ \E id \in DOMAIN comms :
       \E a \in getAttachments(Store, id) :
         \E attachmentId \in {a.id, <<a.fileId>>} :
           deleteNotificationAttachment(id, a, attachmentId)

SpecAttach == Init /\ [][NextAttach]_vars

(***************************************************************************)
(* The attachment engine over a store that may reject a creation.          *)
(***************************************************************************)
NextFault ==
  \/ \E n \in AttachInputs(KnownFileIds) : persistNotification(n, MaxNotifications)
  \/ \E id \in DOMAIN comms : cancelNotification(id)
  \/ getOrphanedAttachmentFiles
  \/ \E n \in AttachInputs(KnownFileIds) :
       persistNotificationStoreRaises(n, MaxNotifications)

SpecFault == Init /\ [][NextFault]_vars


(***************************************************************************)
(* The notification lifecycle: the terminal-state setters and the partial  *)
(* updates.  A setter or update from the store st on returns               *)
(* [ok, error, st, result].                                                *)
(***************************************************************************)
NotPending == [NoError EXCEPT !.type = "Notification is not pending"]
NotSent == [NoError EXCEPT !.type = "Notification is not sent"]
OneOffRead == [NoError EXCEPT !.type = "Cannot mark one-off notification as read"]

\* a field of a partial update: left out, null, or a value
Absent == <<>>
Null == <<None>>
Value(x) == <<Some(x)>>

NoUpdate ==
  [ status |-> Absent, title |-> Absent, bodyTemplate |-> Absent,
    subjectTemplate |-> Absent, adapterUsed |-> Absent, gitCommitSha |-> Absent,
    readAt |-> Absent ]

LifeRaised(st, error) == [ok |-> FALSE, error |-> error, st |-> st, result |-> None]

\* readResource raises on an id the store does not hold; getNotification
\* turns that into null
readNotification(st, id, clock) ==
  IF id \in DOMAIN st.comms
  THEN Some(mapToDatabaseNotification(id, st.comms[id], clock))
  ELSE None

\* updateResource, then the mapped result
updateResource(st, id, c, clock) ==
  [ ok |-> TRUE, error |-> NoError,
    st |-> [st EXCEPT !.comms = Put(st.comms, id, c)],
    result |-> Some(mapToDatabaseNotification(id, c, clock)) ]

\* the write of markAsSent / markAsFailed: the status and lastUpdated
SetStatus(st, id, status, clock) ==
  IF id \notin DOMAIN st.comms THEN LifeRaised(st, StoreRejected(id))
  ELSE updateResource(st, id,
                      [st.comms[id] EXCEPT !.status = status,
                                           !.lastUpdated = Some(toISOString(clock))],
                      clock)

\* notification?.status !== wanted
StatusIsNot(notification, wanted) ==
  notification = None \/ notification[1].fields.status # wanted

markAsSentUnchecked(st, id, checkIsPending, clock) ==
  SetStatus(st, id, "completed", clock)

markAsSentFrom(st, id, checkIsPending, clock) ==
  IF checkIsPending /\ StatusIsNot(readNotification(st, id, clock), "PENDING_SEND")
  THEN LifeRaised(st, NotPending)
  ELSE SetStatus(st, id, "completed", clock)

markAsFailedFrom(st, id, checkIsPending, clock) ==
  IF checkIsPending /\ StatusIsNot(readNotification(st, id, clock), "PENDING_SEND")
  THEN LifeRaised(st, NotPending)
  ELSE SetStatus(st, id, "stopped", clock)

\* upsert of updateIdentifiers: nothing for a field left out, the first
\* identifier of the system removed for null, else replaced or appended
SystemAt(identifiers, system) ==
  {i \in 1..Len(identifiers) : identifiers[i].system = system}

FirstIndex(hits) == CHOOSE i \in hits : \A j \in hits : i <= j

Splice(s, idx) == SubSeq(s, 1, idx - 1) \o SubSeq(s, idx + 1, Len(s))

upsert(updated, system, value) ==
  IF value = Absent THEN updated
  ELSE IF value = Null
  THEN IF SystemAt(updated, system) # {}
       THEN Splice(updated, FirstIndex(SystemAt(updated, system)))
       ELSE updated
  ELSE IF SystemAt(updated, system) # {}
  THEN [updated EXCEPT ![FirstIndex(SystemAt(updated, system))] =
          [system |-> system, value |-> value[1]]]
  ELSE Append(updated, [system |-> system, value |-> value[1]])

updateIdentifiers(existing, notification) ==
  upsert(upsert(upsert(upsert(existing,
                              SysBodyTemplate, notification.bodyTemplate),
                       SysSubjectTemplate, notification.subjectTemplate),
                SysAdapterUsed, notification.adapterUsed),
         SysGitCommitSha, notification.gitCommitSha)

\* the subject extension of the first payload entry is replaced, or removed
\* for null
updatePayloadSubjectTemplate(existingPayload, subjectTemplate) ==
  IF subjectTemplate = Absent \/ Len(existingPayload) = 0 THEN existingPayload
  ELSE [existingPayload EXCEPT ![1].subject = subjectTemplate[1]]

UpdatedStatus(existing, status) ==
  IF status = Value("SENT") THEN "completed"
  ELSE IF status = Value("FAILED") THEN "stopped"
  ELSE existing.status

UpdatedRecord(existing, notification, clock) ==
  [existing EXCEPT
     !.status = UpdatedStatus(existing, notification.status),
     !.payload = updatePayloadSubjectTemplate(existing.payload,
                                              notification.subjectTemplate),
     !.identifier = updateIdentifiers(existing.identifier, notification),
     !.lastUpdated = Some(toISOString(clock))]

persistNotificationUpdateFrom(st, id, notification, clock) ==
  IF id \notin DOMAIN st.comms THEN LifeRaised(st, StoreRejected(id))
  ELSE updateResource(st, id, UpdatedRecord(st.comms[id], notification, clock), clock)

persistOneOffNotificationUpdateFrom(st, id, notification, clock) ==
  IF id \notin DOMAIN st.comms THEN LifeRaised(st, StoreRejected(id))
  ELSE updateResource(st, id, UpdatedRecord(st.comms[id], notification, clock), clock)

\* 'userId' in notification: the regular shape has the key even when the
\* record has no recipient
HasUserIdKey(notification) == notification.form = "regular"
\* 'emailOrPhone' in notification
HasEmailOrPhoneKey(notification) == notification.form = "one-off"

ReadChecked(st, id, checkIsSent, clock, notification) ==
  IF checkIsSent /\ StatusIsNot(notification, "SENT") THEN LifeRaised(st, NotSent)
  ELSE IF notification # None /\ ~HasUserIdKey(notification[1])
  THEN LifeRaised(st, OneOffRead)
  ELSE persistNotificationUpdateFrom(st, id, [NoUpdate EXCEPT !.readAt = Value(clock)],
                                     clock)

markAsReadFrom(st, id, checkIsSent, clock) ==
  ReadChecked(st, id, checkIsSent, clock, readNotification(st, id, clock))

\* getOneOffNotification: the notification when it has the one-off shape
oneOffOnly(notification) ==
  IF notification # None /\ HasEmailOrPhoneKey(notification[1]) THEN notification
  ELSE None

\* the query of filterAllInAppUnreadNotifications and the filter applied to
\* the mapped records
TagInApp == "in-app"

UnreadParams(user) ==
  << <<"status", <<"completed">> >>,
     <<"_tag", <<TagNotification>> >>,
     <<"_tag", <<TagInApp>> >>,
     <<"recipient", <<user>> >> >>

IsUnread(notif) == HasUserIdKey(notif) /\ notif.fields.readAt = None

unreadOf(notifications) == SelectSeq(notifications, IsUnread)

(***************************************************************************)
(* Lifecycle inputs.                                                       *)
(***************************************************************************)
MaxLifeRecords == 1     \* live notifications, lifecycle specification

\* the ids the lifecycle calls are given: the first record's, and one the
\* store may not hold
LifeIds == {1, 2}

ContextNames == {"welcome", TagInApp}
LastNames == {"Doe", ""}

LifeRegularInputs ==
  {[n EXCEPT !.contextName = c] :
     n \in RegularInputs({"U1"}, {"EMAIL"}, {EmptyObject}, {Some("Test Title")},
                         Subjects, {None}, {None}, {Some("a1b2c3")}, {<<>>}),
     c \in ContextNames}

LifeOneOffInputs ==
  {[n EXCEPT !.lastName = l] :
     n \in OneOffInputs({"EMAIL"}, {EmptyObject}, {Some("Test Title")}, {None}, {None},
                        {None}, {Some("a1b2c3")}, {<<>>}),
     l \in LastNames}

\* the partial updates: nothing, one field set, one field unset
Updates ==
  { NoUpdate,
    [NoUpdate EXCEPT !.title = Value("New Title")],
    [NoUpdate EXCEPT !.title = Null],
    [NoUpdate EXCEPT !.status = Value("SENT")],
    [NoUpdate EXCEPT !.bodyTemplate = Value("new-body.pug")],
    [NoUpdate EXCEPT !.subjectTemplate = Value("new-subject.pug")],
    [NoUpdate EXCEPT !.gitCommitSha = Value("e5e5e5")],
    [NoUpdate EXCEPT !.gitCommitSha = Null] }

(***************************************************************************)
(* Lifecycle actions.                                                      *)
(***************************************************************************)
LifeReturns(op, id, check, update, r) ==
  /\ SetStore(r.st)
  /\ last' = [ NoCall EXCEPT
                 !.op = op,
                 !.outcome = IF r.ok THEN "ok" ELSE "raised",
                 !.error = r.error,
                 !.id = id,
                 !.check = check,
                 !.update = update,
                 !.result = r.result ]
  /\ UNCHANGED now

markAsSent(id, checkIsPending) ==
  LifeReturns("markAsSent", id, checkIsPending, None,
              markAsSentFrom(Store, id, checkIsPending, now))

markAsFailed(id, checkIsPending) ==
  LifeReturns("markAsFailed", id, checkIsPending, None,
              markAsFailedFrom(Store, id, checkIsPending, now))

markAsRead(id, checkIsSent) ==
  LifeReturns("markAsRead", id, checkIsSent, None,
              markAsReadFrom(Store, id, checkIsSent, now))

persistNotificationUpdate(id, notification) ==
  LifeReturns("persistNotificationUpdate", id, FALSE, Some(notification),
              persistNotificationUpdateFrom(Store, id, notification, now))

persistOneOffNotificationUpdate(id, notification) ==
  LifeReturns("persistOneOffNotificationUpdate", id, FALSE, Some(notification),
              persistOneOffNotificationUpdateFrom(Store, id, notification, now))

getOneOffNotification(id) ==
  /\ last' = [ NoCall EXCEPT
                 !.op = "getOneOffNotification",
                 !.outcome = "ok",
                 !.id = id,
                 !.result = oneOffOnly(readNotification(Store, id, now)) ]
  /\ UNCHANGED <<comms, medias, binaries, nextId, now>>

UnreadReturns(user, tuples, order) ==
  /\ last' = [ NoCall EXCEPT
                 !.op = "filterAllInAppUnreadNotifications",
                 !.outcome = "ok",
                 !.user = user,
                 !.tuples = tuples,
                 !.searched = TRUE,
                 !.found = unreadOf(searchCommunications(Store, tuples, order, now)) ]
  /\ UNCHANGED <<comms, medias, binaries, nextId, now>>

filterAllInAppUnreadNotifications(user) ==
  \E order \in Orderings(Matching(Store, UnreadParams(user))) :
    UnreadReturns(user, UnreadParams(user), order)

(***************************************************************************)
(* The lifecycle of one notification: created, updated, set to a terminal  *)
(* state, read back.                                                       *)
(***************************************************************************)
NextLife ==
  \/ \E n \in LifeRegularInputs : persistNotification(n, MaxLifeRecords)
  \/ \E n \in LifeOneOffInputs : persistOneOffNotification(n, MaxLifeRecords)
  \/ \E id \in LifeIds, check \in BOOLEAN : markAsSent(id, check)
  \/ \E id \in LifeIds, check \in BOOLEAN : markAsFailed(id, check)
  \/ \E id \in LifeIds, check \in BOOLEAN : markAsRead(id, check)
  \/ \E id \in LifeIds, update \in Updates : persistNotificationUpdate(id, update)
  \/ \E id \in LifeIds, update \in Updates : persistOneOffNotificationUpdate(id, update)
  \/ \E id \in LifeIds : getNotification(id)
  \/ \E id \in LifeIds : getOneOffNotification(id)
  \/ \E user \in {"U1"} : filterAllInAppUnreadNotifications(user)

SpecLife == Init /\ [][NextLife]_vars

(***************************************************************************)
(* Overlapping calls.  Every read-then-write call awaits the store between *)
(* its steps: the setters await getNotification, then readResource, then   *)
(* updateResource; persistNotificationUpdate and                           *)
(* storeAdapterAndContextUsed await readResource, then updateResource.     *)
(* Another call may run at each await.                                     *)
(***************************************************************************)
\* storeAdapterAndContextUsed: the record with the adapterUsed identifier and
\* the contextUsed extension replaced
adapterAndContextStored(communication, adapterKey, context) ==
  [communication EXCEPT
     !.identifier =
        SelectSeq(communication.identifier, LAMBDA i : i.system # SysAdapterUsed)
        \o <<[system |-> SysAdapterUsed, value |-> Some(adapterKey)]>>,
     !.extension =
        SelectSeq(communication.extension, LAMBDA e : e.url # UrlContextUsed)
        \o <<[url |-> UrlContextUsed, valueString |-> Some(JSONstringify(context))]>>]

Setters == {"markAsSent", "markAsFailed"}
\* one notification for the overlapping calls to work on
RaceInputs ==
  {n \in LifeRegularInputs : n.contextName = "welcome" /\ n.subjectTemplate = None}
AdapterKeys == {"test-adapter"}
RaceUpdates ==
  { [NoUpdate EXCEPT !.title = Value("New Title")],
    [NoUpdate EXCEPT !.status = Value("SENT")] }

\* const updated = {...existing, ...}: what a call builds from the record it
\* has just read
UpdatedBy(op, existing, clock) ==
  CASE op = "markAsSent" ->
         {[existing EXCEPT !.status = "completed",
                           !.lastUpdated = Some(toISOString(clock))]}
    [] op = "markAsFailed" ->
         {[existing EXCEPT !.status = "stopped",
                           !.lastUpdated = Some(toISOString(clock))]}
    [] op = "persistNotificationUpdate" ->
         {UpdatedRecord(existing, u, clock) : u \in RaceUpdates}
    [] op = "storeAdapterAndContextUsed" ->
         {adapterAndContextStored(existing, k, EmptyObject) : k \in AdapterKeys}

\* a write that the store refuses when the record is no longer the one read
writeBackIfMatch(st, id, existing, updated) ==
  IF st.comms[id] = existing
  THEN [ok |-> TRUE, error |-> NoError, st |-> [st EXCEPT !.comms = Put(st.comms, id, updated)]]
  ELSE [ok |-> FALSE, error |-> StoreRejected(id), st |-> st]

\* medplum.updateResource(updated): the whole record is replaced, with no
\* condition on the version that was read
writeBack(st, id, existing, updated) ==
  [ok |-> TRUE, error |-> NoError, st |-> [st EXCEPT !.comms = Put(st.comms, id, updated)]]

RaceStep(op, id, outcome, error, result, replaced, flight) ==
  last' = [ NoCall EXCEPT
              !.op = op, !.outcome = outcome, !.error = error, !.id = id,
              !.check = flight.check \/ last.inflight[op].check,
              !.result = result,
              !.replaced = replaced,
              !.inflight = [last.inflight EXCEPT ![op] = flight] ]

\* the first await of a setter: getNotification and the pending check
awaitGetNotification(op, id, checkIsPending) ==
  /\ op \in Setters
  /\ id \in DOMAIN comms
  /\ last.inflight[op].pc = "idle"
  /\ IF checkIsPending /\ StatusIsNot(readNotification(Store, id, now), "PENDING_SEND")
     THEN RaceStep(op, id, "raised", NotPending, None, None,
                   [Idle EXCEPT !.check = checkIsPending])
     ELSE RaceStep(op, id, "awaiting", NoError, None, None,
                   [Idle EXCEPT !.pc = "checked", !.check = checkIsPending, !.id = id])
  /\ UNCHANGED <<comms, medias, binaries, nextId, now>>

\* readResource('Communication', id), and the record to write built from it
awaitReadResource(op, id) ==
  /\ id \in DOMAIN comms
  /\ last.inflight[op].pc = (IF op \in Setters THEN "checked" ELSE "idle")
  /\ op \in Setters => last.inflight[op].id = id
  /\ \E updated \in UpdatedBy(op, comms[id], now) :
       RaceStep(op, id, "awaiting", NoError, None, None,
                [last.inflight[op] EXCEPT !.pc = "read", !.id = id,
                                          !.existing = Some(comms[id]),
                                          !.updated = Some(updated)])
  /\ UNCHANGED <<comms, medias, binaries, nextId, now>>

WriteReturns(op, flight, w) ==
  /\ SetStore(w.st)
  /\ RaceStep(op, flight.id, IF w.ok THEN "ok" ELSE "raised", w.error,
              IF w.ok
              THEN Some(mapToDatabaseNotification(flight.id, flight.updated[1], now))
              ELSE None,
              Some(comms[flight.id]),
              [Idle EXCEPT !.check = flight.check])
  /\ UNCHANGED now

\* updateResource(updated), and the call returns
awaitUpdateResource(op) ==
  /\ last.inflight[op].pc = "read"
  /\ last.inflight[op].id \in DOMAIN comms
  /\ WriteReturns(op, last.inflight[op],
                  writeBack(Store, last.inflight[op].id, last.inflight[op].existing[1],
                            last.inflight[op].updated[1]))

NextRace ==
  \/ \E n \in RaceInputs : persistNotification(n, MaxLifeRecords)
  \/ \E op \in Setters, id \in LifeIds, check \in BOOLEAN :
       awaitGetNotification(op, id, check)
  \/ \E op \in RaceOps, id \in LifeIds : awaitReadResource(op, id)
  \/ \E op \in RaceOps : awaitUpdateResource(op)

SpecRace == Init /\ [][NextRace]_vars

(***************************************************************************)
(* Decoding records other clients of the store wrote.  The records are the *)
(* test suite's Communication with its classification tags, recipient,     *)
(* extensions and status overridden.                                       *)
(***************************************************************************)
MaxDecodeRecords == 1   \* records another client wrote

createMockCommunication(tag, recipient, extension, status) ==
  [ status |-> status,
    sent |-> None,
    topic |-> Some("Test Title"),
    payload |-> <<[ contentString |-> Some("/path/to/template"),
                    subject |-> Some("Test Subject"),
                    attachment |-> None ]>>,
    identifier |-> <<>>,
    recipient |-> recipient,
    note |-> Some(JSONstringify(<< <<"param1", "value1">> >>)),
    extension |-> extension,
    tag |-> tag,
    lastUpdated |-> None ]

TagLists ==
  { SubSeq(<<TagNotification, "testContext", "EMAIL", TagOneOff>>, 1, k) : k \in 0..4 }

OneOffExtensions(lastName) ==
  << [url |-> UrlEmailOrPhone, valueString |-> Some("test@example.com")],
     [url |-> UrlFirstName, valueString |-> Some("John")],
     [url |-> UrlLastName, valueString |-> Some(lastName)] >>

\* none, one, two or all three of the one-off extensions
ExtensionLists ==
  { SubSeq(OneOffExtensions("Doe"), 1, k) : k \in 0..3 } \cup { OneOffExtensions("") }

MockCommunications ==
  { createMockCommunication(tag, recipient, extension, status) :
      tag \in TagLists, recipient \in {None, Some("user-123")},
      extension \in ExtensionLists, status \in {"in-progress", "completed"} }

\* another client's createResource
createResource(c) ==
  /\ Cardinality(DOMAIN comms) < MaxDecodeRecords
  /\ nextId <= MaxIds
  /\ SetStore(createCommunication(Store, c, now))
  /\ last' = [NoCall EXCEPT !.op = "createResource", !.outcome = "ok", !.id = nextId]
  /\ UNCHANGED now

NextDecode ==
  \/ \E c \in MockCommunications : createResource(c)
  \/ \E id \in LifeIds : getNotification(id)
  \/ \E id \in LifeIds : getOneOffNotification(id)

SpecDecode == Init /\ [][NextDecode]_vars

(***************************************************************************)
(* The static capability declaration and what it says of a filter tree.    *)
(***************************************************************************)
getFilterCapabilities ==
  [ k \in { "logical.and", "logical.not",
            "fields.status", "fields.notificationType", "fields.adapterUsed",
            "fields.userId", "fields.bodyTemplate", "fields.subjectTemplate",
            "fields.contextName", "fields.sendAfterRange", "fields.createdAtRange",
            "fields.sentAtRange" } |-> TRUE ]
  @@
  [ k \in { "logical.or", "logical.notNested",
            "negation.sendAfterRange", "negation.createdAtRange",
            "negation.sentAtRange",
            "stringLookups.startsWith", "stringLookups.endsWith",
            "stringLookups.includes", "stringLookups.caseInsensitive" } |-> FALSE ]

Capable(feature) == getFilterCapabilities[feature]

RangeFields == {"sendAfterRange", "sentAtRange", "createdAtRange"}
LookupFields == {"contextName", "bodyTemplate", "subjectTemplate"}

\* a string lookup the declaration allows: the bare string and the exact
\* case-sensitive lookup are the base case, every other mode has its flag
LookupDeclared(value) ==
  /\ value.lookup \in {"plain", "exact"} \/ Capable("stringLookups." \o value.lookup)
  /\ value.caseSensitive \/ Capable("stringLookups.caseInsensitive")

FieldsDeclared(fields) ==
  /\ \A f \in DOMAIN fields : fields[f] # None => Capable("fields." \o f)
  /\ \A f \in LookupFields : fields[f] # None => LookupDeclared(fields[f][1])

NegationDeclared(fields) ==
  \A f \in RangeFields : fields[f] # None => Capable("negation." \o f)

\* a filter tree built only from features the declaration names supported
RECURSIVE Declared(_)
Declared(filter) ==
  CASE filter.kind = "leaf" -> FieldsDeclared(filter.fields)
    [] filter.kind = "and" ->
         /\ Capable("logical.and")
         /\ \A i \in 1..Len(filter.children) : Declared(filter.children[i])
    [] filter.kind = "or" ->
         /\ Capable("logical.or")
         /\ \A i \in 1..Len(filter.children) : Declared(filter.children[i])
    [] filter.kind = "not" ->
         /\ Capable("logical.not")
         /\ Declared(filter.children[1])
         /\ IF isFieldFilter(filter.children[1])
            THEN NegationDeclared(filter.children[1].fields)
            ELSE Capable("logical.notNested")

(***************************************************************************)
(* Properties of the mapping layer, checked under SpecMap.                 *)
(***************************************************************************)
PersistOps == {"persistNotification", "persistOneOffNotification"}

RecipientReproduced(n, d) ==
  /\ d.form = n.form
  /\ IF n.form = "regular"
     THEN d.userId = Some(n.userId)
     ELSE /\ d.emailOrPhone = Some(n.emailOrPhone)
          /\ d.firstName = Some(n.firstName)
          /\ d.lastName = Some(n.lastName)

FieldsReproduced(n, f) ==
  /\ f.notificationType = Some(n.notificationType)
  /\ f.contextName = Some(n.contextName)
  /\ f.contextParameters = n.contextParameters
  /\ f.title = n.title
  /\ f.bodyTemplate = n.bodyTemplate
  /\ f.subjectTemplate = n.subjectTemplate
  /\ f.sendAfter = n.sendAfter
  /\ f.gitCommitSha = n.gitCommitSha

\* an input without extraParams may read back as the empty object
ExtraParamsReproduced(n, f) ==
  n.extraParams # None => f.extraParams = n.extraParams[1]

Reproduces(n, d) ==
  /\ RecipientReproduced(n, d)
  /\ FieldsReproduced(n, d.fields)
  /\ ExtraParamsReproduced(n, d.fields)

\* C1: after a persist call returns, the notification it returned and the
\* decoding of the record it created reproduce every field of the input:
\* recipient, notificationType, contextName, contextParameters, title,
\* bodyTemplate, subjectTemplate, sendAfter, extraParams, gitCommitSha.
C1_RoundTrip ==
  (last.op \in PersistOps /\ last.outcome = "ok")
    => /\ Reproduces(last.input[1], last.result[1])
       /\ Reproduces(last.input[1], mapToDatabaseNotification(last.id, comms[last.id], now))

IsPendingQuery(call) ==
  \/ call.op = "getAllPendingNotifications"
  \/ /\ call.op = "getPendingNotifications"
     /\ call.page = 0
     /\ call.pageSize >= Cardinality(DOMAIN comms)

\* C7: when persistNotification has returned a notification whose sendAfter
\* is null and the next call is a pending query (all of them, or the first
\* page, of a size that holds every stored record), the query returns that
\* notification.
C7_DueNow ==
  [][ ( /\ last.op = "persistNotification"
        /\ last.outcome = "ok"
        /\ last.input[1].sendAfter = None
        /\ IsPendingQuery(last') )
      => \E i \in 1..Len(last'.found) : last'.found[i].fields.id = last.id ]_vars

(***************************************************************************)
(* Properties of the filter compiler, checked under SpecFilter.            *)
(***************************************************************************)
TagAndFilters ==
  { AndOf(<<TypeLeaf("EMAIL"), ContextLeaf("welcome")>>),
    AndOf(<<ContextLeaf("welcome"), TypeLeaf("EMAIL")>>) }

TagValues(tuples) ==
  {tuples[i][2] : i \in {j \in 1..Len(tuples) : tuples[j][1] = "_tag"}}

\* C4: filterNotifications on AND(notificationType=EMAIL,
\* contextName=welcome) returns without error, and the `_tag` tuples it
\* sends are one per value (EMAIL, welcome, and the notification marker),
\* none of them comma-joined.
C4_TagAnd ==
  (last.op = "filterNotifications" /\ last.filter[1] \in TagAndFilters)
    => /\ last.outcome = "ok"
       /\ TagValues(last.tuples) = {<<"EMAIL">>, <<"welcome">>, <<TagNotification>>}

CompiledChildren(filter) ==
  [i \in 1..Len(filter.children) |-> buildFhirSearchParams(filter.children[i])]

\* the <<key, left, right>> of the keys two params objects set to different
\* values
PairConflicts(p, q) ==
  { <<p[x[1]][1], p[x[1]][2], q[x[2]][2]>> :
      x \in { y \in (1..Len(p)) \X (1..Len(q)) :
                /\ p[y[1]][1] = q[y[2]][1]
                /\ p[y[1]][2] # q[y[2]][2] } }

\* the same over every two children of an AND, the earlier child first
ConflictsOf(subs) ==
  UNION { PairConflicts(subs[x[1]].params, subs[x[2]].params) :
            x \in { y \in (1..Len(subs)) \X (1..Len(subs)) : y[1] < y[2] } }

ConflictReported(error, conflicts) ==
  \E c \in conflicts : error = ConflictingValues(c[1], c[2], c[3])

ConflictingAnd(filter, subs) ==
  /\ filter.kind = "and"
  /\ \A i \in 1..Len(subs) : subs[i].ok
  /\ ConflictsOf(subs) # {}

\* C5: when filterNotifications is given an AND whose children each compile
\* and two of them set the same query parameter to different values, the
\* call raises the conflicting-values error naming that parameter and the
\* two values, and the store is not queried.
C5_ConflictDetection ==
  ( /\ last.op = "filterNotifications"
    /\ ConflictingAnd(last.filter[1], CompiledChildren(last.filter[1])) )
    => /\ last.outcome = "raised"
       /\ ConflictReported(last.error, ConflictsOf(CompiledChildren(last.filter[1])))
       /\ ~last.searched
       /\ last.found = <<>>

\* the case of C5: AND(status=SENT, status=FAILED) was refused over `status`
C5_ConflictRaised ==
  /\ last.op = "filterNotifications"
  /\ last.filter = Some(AndOf(<<StatusLeaf(<<"SENT">>), StatusLeaf(<<"FAILED">>)>>))
  /\ last.outcome = "raised"
  /\ last.error = ConflictingValues("status", <<"completed">>, <<"stopped">>)
  /\ DOMAIN comms # {}

RECURSIVE ContainsOr(_)
ContainsOr(filter) ==
  \/ filter.kind = "or"
  \/ \E i \in 1..Len(filter.children) : ContainsOr(filter.children[i])

\* C6: filterNotifications on a filter tree that holds an OR node at any
\* depth raises the OR-unsupported error, and the store is not queried.
C6_OrRejection ==
  (last.op = "filterNotifications" /\ ContainsOr(last.filter[1]))
    => /\ last.outcome = "raised"
       /\ last.error = OrUnsupported
       /\ ~last.searched

(***************************************************************************)
(* Properties of the attachment engine and file cleanup, checked under     *)
(* SpecAttach.  Every step of that specification is one backend call, and  *)
(* last' names it.                                                         *)
(***************************************************************************)
Locators(c) == {LocatorAt(c, i) : i \in LocatorEntries(c)}

Files(n) == {i \in 1..Len(n.attachments) : n.attachments[i].kind = "file"}
References(n) == {i \in 1..Len(n.attachments) : n.attachments[i].kind = "ref"}

OneNewFile(n) == Len(n.attachments) = 1 /\ Files(n) = {1}

TwoNewFilesOfOneContent(n) ==
  /\ Len(n.attachments) = 2
  /\ Files(n) = {1, 2}
  /\ n.attachments[1].bytes = n.attachments[2].bytes

MetadataAfter == {m \in DOMAIN medias' : TagBackendMetadata \in SeqToSet(medias'[m].tag)}
MetadataBefore == {m \in DOMAIN medias : TagBackendMetadata \in SeqToSet(medias[m].tag)}

\* C2: when two successive persistNotification calls each carry the same
\* bytes as their one new attachment and the store answers the second
\* call's checksum query, the second call uploads nothing and the locator
\* written for the second notification is the one written for the first.
C2_DedupAcrossCalls ==
  [][ ( /\ last.op = "persistNotification" /\ last.outcome = "ok"
        /\ last'.op = "persistNotification" /\ last'.outcome = "ok"
        /\ last'.id # last.id
        /\ OneNewFile(last.input[1]) /\ OneNewFile(last'.input[1])
        /\ last.input[1].attachments[1].bytes = last'.input[1].attachments[1].bytes
        /\ last'.lookupOk )
      => /\ last'.uploads = 0
         /\ Locators(comms'[last'.id]) = Locators(comms'[last.id]) ]_vars

\* C3: when one persistNotification call carries two new attachments of
\* identical bytes and no metadata record with their checksum is stored,
\* uploadFile is called once, one metadata record is stored, and the two
\* payload entries name the same record.
C3_DedupWithinCall ==
  [][ ( /\ last'.op = "persistNotification" /\ last'.outcome = "ok"
        /\ nextId' # nextId
        /\ TwoNewFilesOfOneContent(last'.input[1])
        /\ ChecksumMatches(Store,
                           {calculateChecksum(last'.input[1].attachments[1].bytes)}) = {} )
      => /\ last'.uploads = 1
         /\ Cardinality(MetadataAfter \ MetadataBefore) = 1
         /\ Cardinality(LocatorEntries(comms'[last'.id])) = 2
         /\ Cardinality(Locators(comms'[last'.id])) = 1 ]_vars

ReferencedByLocator(fileId) == \E c \in DOMAIN comms : fileId \in Locators(comms[c])

BlobsOf(media) ==
  {b \in DOMAIN binaries : Some(b) \in {media.binaryIdent, MatchBinaryId(media.url)}}

\* C8: deleteAttachmentFile on a stored file raises and deletes nothing
\* when a live notification's locator names the file; otherwise, when it
\* returns, the file's record and its blob are gone from the store.
C8_DeleteOnlyOrphans ==
  [][ (last'.op = "deleteAttachmentFile" /\ last'.id \in DOMAIN medias)
      => IF ReferencedByLocator(last'.id)
         THEN /\ last'.outcome = "raised"
              /\ UNCHANGED <<comms, medias, binaries>>
         ELSE last'.outcome = "ok"
                => /\ last'.id \notin DOMAIN medias'
                   /\ BlobsOf(medias[last'.id]) \cap DOMAIN binaries' = {} ]_vars

Unresolved(n) ==
  {n.attachments[i].fileId : i \in {j \in References(n) : n.attachments[j].fileId \notin DOMAIN medias}}

\* C10: a persistNotification call with an attachment reference that names
\* no stored file raises the not-found error naming such an id, uploads
\* nothing, creates no record of any kind, and returns no notification
\* and no attachments.
C10_UnresolvedReference ==
  [][ ( /\ last'.op = "persistNotification"
        /\ Unresolved(last'.input[1]) # {} )
      => /\ last'.outcome = "raised"
         /\ last'.error.type = "Attachment file not found"
         /\ last'.error.id \in Unresolved(last'.input[1])
         /\ last'.uploads = 0
         /\ last'.result = None
         /\ last'.attachments = {}
         /\ UNCHANGED <<comms, medias, binaries, nextId>> ]_vars

\* the case of C10: a call that carried a new file next to a reference to
\* a file that is not stored, and was refused
C10_RefusedWithNewFile ==
  /\ last.op = "persistNotification"
  /\ last.outcome = "raised"
  /\ last.error = AttachmentNotFound(MissingFileId)
  /\ Files(last.input[1]) # {}
  /\ References(last.input[1]) # {}

(***************************************************************************)
(* The lifecycle claims.                                                   *)
(***************************************************************************)
\* the status the stored record id maps to, before the step
MappedStatus(id) == mapToDatabaseNotification(id, comms[id], now).fields.status

SentStep(id) == last'.op = "markAsSent" /\ last'.id = id

\* C11: markAsSent(id) with the precondition check enabled raises when the
\* stored notification's mapped status is not PENDING_SEND and leaves the
\* stored record unchanged; with the check disabled it succeeds on every
\* stored notification, whatever its status, and the returned notification
\* has status SENT.
C11_MarkAsSentPrecondition ==
  [][\A id \in DOMAIN comms :
       SentStep(id) =>
         /\ (last'.check /\ MappedStatus(id) # "PENDING_SEND")
              => /\ last'.outcome = "raised"
                 /\ last'.error = NotPending
                 /\ comms' = comms
         /\ ~last'.check
              => /\ last'.outcome = "ok"
                 /\ last'.result # None
                 /\ last'.result[1].fields.status = "SENT"
                 /\ comms'[id].status = "completed"]_vars

\* a checked markAsSent was refused on a stored record that is not pending
C11_RefusedOnSent ==
  /\ last.op = "markAsSent"
  /\ last.check
  /\ last.outcome = "raised"
  /\ last.id \in DOMAIN comms
  /\ comms[last.id].status \in {"completed", "stopped"}

\* C12: after markAsRead(id) succeeds on a sent regular notification the
\* read timestamp is recorded: the returned notification has a non-null
\* readAt.
C12_ReadRecorded ==
  ( /\ last.op = "markAsRead"
    /\ last.outcome = "ok"
    /\ last.result # None
    /\ HasUserIdKey(last.result[1])
    /\ last.result[1].fields.status = "SENT" )
  => last.result[1].fields.readAt # None

\* the records persistOneOffNotification created carry the one-off tag
IsOneOffStored(c) == TagOneOff \in SeqToSet(c.tag)

ReadStep(id) == last'.op = "markAsRead" /\ last'.id = id

\* C13: markAsRead(id) raises for every record persistOneOffNotification
\* created, whether or not the sent-status check is enabled, and leaves the
\* stored record unchanged.
C13_OneOffNeverRead ==
  [][\A id \in DOMAIN comms :
       (ReadStep(id) /\ IsOneOffStored(comms[id]))
         => (last'.outcome = "raised" /\ comms' = comms)]_vars

HasReference(n) == n.userId # None
HasTriple(n) == n.emailOrPhone # None /\ n.firstName # None /\ n.lastName # None

\* exactly one recipient form
OneRecipientForm(n) == HasReference(n) # HasTriple(n)

\* C14: every notification a persist or read operation returns carries
\* exactly one recipient form, the recipient reference or the complete
\* inline triple; every record persistOneOffNotification created is returned
\* as one-off, and getOneOffNotification returns it non-null.
C14_RecipientExclusivity ==
  /\ last.result # None => OneRecipientForm(last.result[1])
  /\ \A i \in 1..Len(last.found) : OneRecipientForm(last.found[i])
  /\ (last.op = "persistOneOffNotification" /\ last.outcome = "ok")
       => HasTriple(last.result[1])
  /\ ( /\ last.op = "getOneOffNotification"
       /\ last.id \in DOMAIN comms
       /\ IsOneOffStored(comms[last.id]) )
       => last.result # None

UpdateOps == {"persistNotificationUpdate", "persistOneOffNotificationUpdate"}

UpdateStep(id) == last'.op \in UpdateOps /\ last'.outcome = "ok" /\ last'.id = id

\* the updatable fields the decoded notification holds as optional values,
\* and those it holds as plain strings
OptionalFields == {"title", "subjectTemplate", "adapterUsed", "gitCommitSha"}
StringFields == {"status", "bodyTemplate"}
KeptFields ==
  OptionalFields \cup StringFields
  \cup {"notificationType", "contextName", "contextParameters", "sendAfter"}

\* a field the update holds is set to the value given, or unset for null
FieldWritten(update, fields, f) ==
  update[f] # Absent
    => IF f \in StringFields THEN update[f] # Null /\ fields[f] = update[f][1][1]
       ELSE fields[f] = update[f][1]

\* a field the update leaves out keeps the value it had
FieldKept(update, before, after, f) ==
  (f \in DOMAIN update => update[f] = Absent) => after[f] = before[f]

OneIdentifierPerSystem(c) ==
  \A i, j \in 1..Len(c.identifier) :
    c.identifier[i].system = c.identifier[j].system => i = j

PartialUpdate(id, update, before, after, stored) ==
  /\ after.id = id
  /\ \A f \in OptionalFields \cup StringFields : FieldWritten(update, after, f)
  /\ \A f \in KeptFields : FieldKept(update, before, after, f)
  /\ OneIdentifierPerSystem(stored)

\* C20: persistNotificationUpdate and persistOneOffNotificationUpdate are
\* partial field-level updates: each field present in the update is set to
\* the value given (unset for null) in the returned notification, every
\* field absent from the update keeps its prior value, the id is unchanged,
\* and the stored record has at most one identifier per system.
C20_PartialUpdate ==
  [][\A id \in DOMAIN comms :
       UpdateStep(id)
         => PartialUpdate(id, last'.update[1],
                          mapToDatabaseNotification(id, comms[id], now).fields,
                          last'.result[1].fields,
                          comms'[id])]_vars

(***************************************************************************)
(* The decode claims.                                                      *)
(***************************************************************************)
ReadOps == {"getNotification", "getOneOffNotification"}

\* the record a read was asked for presents a recipient reference and the
\* three one-off extensions, each with a value
PresentsBoth(c) ==
  /\ c.recipient # None
  /\ Truthy(ExtensionValue(c, UrlEmailOrPhone))
  /\ Truthy(ExtensionValue(c, UrlFirstName))
  /\ Truthy(ExtensionValue(c, UrlLastName))

OneOffFrom(c, n) ==
  /\ n.emailOrPhone = ExtensionValue(c, UrlEmailOrPhone)
  /\ n.firstName = ExtensionValue(c, UrlFirstName)
  /\ n.lastName = ExtensionValue(c, UrlLastName)
  /\ ~HasUserIdKey(n)
  /\ n.userId = None

C16_ShortTagsRejected ==
  /\ last.result # None
       => /\ last.result[1].fields.notificationType # None
          /\ last.result[1].fields.contextName # None
  /\ (last.op \in ReadOps /\ last.id \in DOMAIN comms /\ Len(comms[last.id].tag) < 3)
       => last.result = None

(***************************************************************************)
(* The filter compiler claims, continued.                                  *)
(***************************************************************************)
FilterCallOf(kind) ==
  last.op = "filterNotifications" /\ last.filter # None /\ last.filter[1].kind = kind

NegatedChild == last.filter[1].children[1]

RangesOf(fields) == {f \in RangeFields : fields[f] # None}

NegatedKeys == {"status:not", "_tag:not", "recipient:not", "identifier:not"}

\* the tuples of the query besides the paging and the notification marker
ChildTuples(tuples) ==
  {i \in 1..Len(tuples) :
     tuples[i] \notin { <<"_tag", <<TagNotification>> >> }
     /\ tuples[i][1] \notin {"_count", "_offset"}}

\* C17: filterNotifications on NOT(child) raises unless child is a single
\* field predicate; it raises the error naming a range field when the child
\* holds sendAfterRange, sentAtRange or createdAtRange; in the accepted case
\* every parameter emitted for the child carries the `:not` marker.
C17_NotLegality ==
  FilterCallOf("not") =>
    /\ ~isFieldFilter(NegatedChild)
         => (last.outcome = "raised" /\ last.error = NotOnlySimple /\ ~last.searched)
    /\ ( /\ isFieldFilter(NegatedChild)
         /\ RangesOf(NegatedChild.fields) # {}
         /\ StringFieldError(NegatedChild.fields) = NoError )
         => /\ last.outcome = "raised"
            /\ ~last.searched
            /\ \E f \in RangesOf(NegatedChild.fields) : last.error = NotOnRange(f)
    /\ last.outcome = "ok"
         => /\ ChildTuples(last.tuples) # {}
            /\ \A i \in ChildTuples(last.tuples) : last.tuples[i][1] \in NegatedKeys

\* a NOT over a leaf that holds a range next to a negatable field was refused
C17_RangeRefused ==
  /\ FilterCallOf("not")
  /\ isFieldFilter(NegatedChild)
  /\ NegatedChild.fields.status # None
  /\ NegatedChild.fields.sendAfterRange # None
  /\ last.outcome = "raised"

TagTuples(tuples) == {i \in 1..Len(tuples) : tuples[i][1] = "_tag"}

\* C18: every query filterNotifications sends to the store holds a `_tag`
\* tuple with the value `notification`, and every `_tag` tuple holds one tag
\* value: no comma-joined value is emitted.
C18_TagGuarantee ==
  (last.op = "filterNotifications" /\ last.searched)
    => /\ \E i \in TagTuples(last.tuples) : last.tuples[i][2] = <<TagNotification>>
       /\ \A i \in TagTuples(last.tuples) : Len(last.tuples[i][2]) = 1

\* a leaf naming a type and a context was sent as three `_tag` tuples
C18_ThreeTagTuples ==
  /\ FilterCallOf("leaf")
  /\ last.searched
  /\ last.filter[1].fields.notificationType # None
  /\ last.filter[1].fields.contextName # None
  /\ Cardinality(TagTuples(last.tuples)) = 3

\* the error a leaf's undeclared contextName lookup is refused with: it names
\* the field and the mode
LookupRefusals(value) ==
  { LookupUnsupported("contextName", value.lookup),
    CaseInsensitiveUnsupported("contextName") }

\* C19: the capability declaration agrees with the compiler: a filter that
\* uses a feature declared unsupported makes filterNotifications raise before
\* the store is queried, an undeclared string lookup with an error naming
\* the field and the mode, and a filter built only from features declared
\* supported compiles without error.
C19_CapabilitiesAgree ==
  (last.op = "filterNotifications" /\ last.filter # None)
    => /\ IF Declared(last.filter[1])
          THEN last.outcome = "ok"
          ELSE last.outcome = "raised" /\ ~last.searched
       /\ ( /\ isFieldFilter(last.filter[1])
            /\ last.filter[1].fields.contextName # None
            /\ ~LookupDeclared(last.filter[1].fields.contextName[1]) )
            => last.error \in LookupRefusals(last.filter[1].fields.contextName[1])

\* READ is SENT plus the read timestamp: the status a filtered status reads
\* back as under the three-way collapse
Collapsed(status) == IF status = "READ" THEN "SENT" ELSE status

StatusTuples(tuples) == {i \in 1..Len(tuples) : tuples[i][1] = "status"}

FilteredStatuses(filter) == {Collapsed(s) : s \in SeqToSet(filter.fields.status[1])}

\* C21: the status mapping is one three-way collapse in both directions:
\* a status filter never emits a store status that decode maps to another
\* domain status than one filtered for, and filtering for CANCELLED, which
\* has no store status, emits no status value.
C21_StatusCollapse ==
  ( /\ FilterCallOf("leaf")
    /\ last.searched
    /\ last.filter[1].fields.status # None )
  => /\ \A i \in StatusTuples(last.tuples) :
          \A v \in SeqToSet(last.tuples[i][2]) :
            StatusOfFhir(v) \in FilteredStatuses(last.filter[1])
     /\ last.filter[1].fields.status[1] = <<"CANCELLED">>
          => StatusTuples(last.tuples) = {}

(***************************************************************************)
(* The attachment engine claims, continued.                                *)
(***************************************************************************)
AttachStep == last'.op \in PersistOps /\ last'.input # None

NewOf(attachments) == {i \in 1..Len(attachments) : attachments[i].kind = "file"}

\* the checksums the batched query of a call finds in the store st
FoundChecksums(st, attachments, lookupOk) ==
  IF lookupOk
  THEN {st.medias[m].checksum : m \in ChecksumMatches(st, UploadChecksums(attachments))}
  ELSE {}

NotFound(st, attachments, lookupOk) ==
  {i \in NewOf(attachments) :
     calculateChecksum(attachments[i].bytes) \notin FoundChecksums(st, attachments, lookupOk)}

PersistedWithFiles ==
  /\ last.op \in PersistOps
  /\ last.outcome = "ok"
  /\ last.input # None
  /\ Len(last.input[1].attachments) > 0

\* the payload entries that follow the body entry of the record a call made
AttachmentPayload(c, n) == SubSeq(c.payload, Len(basePayload(n)) + 1, Len(c.payload))

\* entry names the file of input a: the referenced id, or a Media holding
\* the checksum of the uploaded bytes
EntryOf(entry, a) ==
  /\ entry.attachment # None
  /\ entry.contentString = None
  /\ MatchMediaId(Some(entry.attachment[1].url)) # None
  /\ IF a.kind = "ref"
     THEN entry.attachment[1].url.id = a.fileId
     ELSE /\ entry.attachment[1].url.id \in DOMAIN medias
          /\ medias[entry.attachment[1].url.id].checksum = calculateChecksum(a.bytes)

InInputOrder(entries, attachments) ==
  /\ Len(entries) = Len(attachments)
  /\ \A k \in 1..Len(attachments) : EntryOf(entries[k], attachments[k])

\* C23: the attachment entries of the stored payload are one per input
\* attachment, and the k-th entry is the one for the k-th input, whatever the
\* mix of references and new files.
C23_OrderPreserved ==
  PersistedWithFiles
    => InInputOrder(AttachmentPayload(comms[last.id], last.input[1]),
                    last.input[1].attachments)

\* a new file followed by a reference to another file was stored in that order
C23_FileThenReference ==
  /\ PersistedWithFiles
  /\ Len(last.input[1].attachments) = 2
  /\ last.input[1].attachments[1].kind = "file"
  /\ last.input[1].attachments[2].kind = "ref"
  /\ LocatorAt(comms[last.id], Len(comms[last.id].payload))
       = last.input[1].attachments[2].fileId
  /\ LocatorAt(comms[last.id], Len(comms[last.id].payload) - 1)
       # last.input[1].attachments[2].fileId

StoreUnchanged ==
  /\ comms' = comms
  /\ medias' = medias
  /\ binaries' = binaries

\* C24: a persist call that raises, at whatever step, leaves in the store no
\* record that the call created.
C24_AllOrNothing ==
  [][(AttachStep /\ last'.outcome = "raised") => StoreUnchanged]_vars

\* C28: when the reference search of deleteAttachmentFile raises, the call
\* deletes neither the metadata record nor the blob.
C28_DeleteFailsSafe ==
  [][(last'.op = "deleteAttachmentFile" /\ ~last'.lookupOk)
       => (medias' = medias /\ binaries' = binaries)]_vars

\* the Media a locator names is stored and its Binary is stored
Resolves(m) ==
  /\ m \in DOMAIN medias
  /\ BlobsOf(medias[m]) # {}

BlobSafe ==
  \A c \in DOMAIN comms : \A m \in Locators(comms[c]) : Resolves(m)

\* deleteAttachmentFile on an id the scan just before it returned, with no
\* search failing
CleanupStep ==
  /\ last.op = "getOrphanedAttachmentFiles"
  /\ last'.op = "deleteAttachmentFile"
  /\ last'.id \in {r.id : r \in last.files}
  /\ last'.lookupOk
  /\ last'.outcome = "ok"

\* C26: cleanup keeps the blobs of live notifications: deleting a file that
\* getOrphanedAttachmentFiles returned leaves every attachment locator of
\* every live notification resolving to a stored record whose Binary is
\* stored.
C26_BlobSafety ==
  [][(CleanupStep /\ BlobSafe) => BlobSafe']_vars

\* deleteNotificationAttachment asked with the `id` of a stored attachment
\* that getAttachments returns for the notification
DetachStep ==
  /\ last'.op = "deleteNotificationAttachment"
  /\ last'.attachments \subseteq getAttachments(Store, last'.id)
  /\ \E a \in last'.attachments : last'.attachmentId = a.id

OtherEntries(c, fileId) ==
  SelectSeq(c.payload,
            LAMBDA p : p.attachment = None \/ p.attachment[1].url.id # fileId)

\* C29: for a stored attachment a of getAttachments(n),
\* deleteNotificationAttachment(n, a.id) succeeds, after it getAttachments(n)
\* no longer holds a, and every other payload entry is as it was.
C29_AttachmentIdRoundTrip ==
  [][DetachStep
       => /\ last'.outcome = "ok"
          /\ \A a \in last'.attachments :
               /\ a \notin getAttachments([Store EXCEPT !.comms = comms'], last'.id)
               /\ comms'[last'.id].payload = OtherEntries(comms[last'.id], a.fileId)]_vars

(***************************************************************************)
(* The filter tree read logically, over the decoded notification.          *)
(***************************************************************************)
InRange(date, range) ==
  /\ date # None
  /\ range.from # None => date[1] >= range.from[1]
  /\ range.to # None => date[1] <= range.to[1]

\* all fields of one predicate hold; an array value means "is one of"
SatisfiesFields(d, f) ==
  /\ f.status # None => d.fields.status \in SeqToSet(f.status[1])
  /\ f.notificationType # None
       => \E t \in SeqToSet(f.notificationType[1]) : d.fields.notificationType = Some(t)
  /\ f.contextName # None => d.fields.contextName = Some(f.contextName[1].value)
  /\ f.userId # None => d.userId = f.userId
  /\ f.adapterUsed # None
       => \E a \in SeqToSet(f.adapterUsed[1]) : d.fields.adapterUsed = Some(a)
  /\ f.bodyTemplate # None => d.fields.bodyTemplate = f.bodyTemplate[1].value
  /\ f.subjectTemplate # None
       => d.fields.subjectTemplate = Some(f.subjectTemplate[1].value)
  /\ f.sendAfterRange # None => InRange(d.fields.sendAfter, f.sendAfterRange[1])
  /\ f.sentAtRange # None => InRange(d.fields.sentAt, f.sentAtRange[1])
  /\ f.createdAtRange # None => InRange(Some(d.fields.createdAt), f.createdAtRange[1])

RECURSIVE Satisfies(_, _)
Satisfies(d, filter) ==
  CASE filter.kind = "leaf" -> SatisfiesFields(d, filter.fields)
    [] filter.kind = "and" ->
         \A i \in 1..Len(filter.children) : Satisfies(d, filter.children[i])
    [] filter.kind = "or" ->
         \E i \in 1..Len(filter.children) : Satisfies(d, filter.children[i])
    [] filter.kind = "not" -> ~Satisfies(d, filter.children[1])

Satisfying(filter) ==
  {id \in DOMAIN comms : Satisfies(mapToDatabaseNotification(id, comms[id], now), filter)}

\* a call that was accepted and asked for everything on one page
WholePage ==
  /\ last.op = "filterNotifications"
  /\ last.outcome = "ok"
  /\ last.filter # None
  /\ last.page = 0
  /\ last.pageSize = MaxPageSize

\* C27: the query filterNotifications compiles selects exactly the records
\* that satisfy the filter tree read logically.
C27_CompilePreservesMeaning ==
  WholePage
    => {last.found[i].fields.id : i \in 1..Len(last.found)} = Satisfying(last.filter[1])

(***************************************************************************)
(* Overlapping updates.                                                    *)
(***************************************************************************)
\* the updateResource step of a call in flight
WriteStep ==
  /\ last'.op \in RaceOps
  /\ last.inflight[last'.op].pc = "read"
  /\ last'.inflight[last'.op].pc = "idle"

\* C25: the read-then-write updates are not atomic: the write of a call
\* succeeds and replaces the record with the one built from the call's own
\* read, whatever another call has written since that read.
C25_WritesAreUnconditional ==
  [][WriteStep
       => /\ last'.outcome = "ok"
          /\ comms'[last'.id] = last.inflight[last'.op].updated[1]]_vars

\* markAsFailed with the check enabled returned normally after it replaced a
\* record that another call had already set to completed
C25_BothPassedTheCheck ==
  /\ last.op = "markAsFailed"
  /\ last.outcome = "ok"
  /\ last.check
  /\ last.replaced # None
  /\ last.replaced[1].status = "completed"
  /\ comms[last.id].status = "stopped"

Terminal == {"completed", "stopped"}

\* C30: a notification whose store status is completed or stopped keeps a
\* status in {completed, stopped} under every step that does not delete it.
C30_LifecycleMonotonic ==
  [][\A id \in DOMAIN comms \cap DOMAIN comms' :
       comms[id].status \in Terminal => comms'[id].status \in Terminal]_vars
====
